---- MODULE Spec2Model ----
(***************************************************************************)
(* Model of the JodhpurOS front end: the live audio session manager of     *)
(* components/LiveShopAssistant.tsx (startSession / stopSession and the    *)
(* connection callbacks), its tool-call handling, and the camera capture   *)
(* component of services/menuData.ts.                                      *)
(*                                                                         *)
(* The program is single threaded: every action below is one run of one    *)
(* callback of the event loop, from its entry to its next await or return. *)
(***************************************************************************)
EXTENDS Integers, Sequences, FiniteSets, TLC

\* ------------------------------------------------------------------ bounds
MaxAttempts == 2      \* startSession calls in progress or with live objects
MaxTimers == 2        \* reconnect timers that can be pending together
MaxBatch == 2         \* function calls in one tool-call message
MaxMessages == 2      \* tool-call messages delivered to an established session
MaxTime == 15000      \* the clock stops here, in ms
MaxCaptures == 8      \* tray captures delivered to onCapture
MaxItems == 2         \* raw items in a logOrder payload
MaxLen == 3           \* characters of a text given to the CSV sanitizer
MaxLogs == 2          \* entries of the count log
MaxClock == 95000     \* the display is followed up to here, in ms
MaxChunks == 2        \* inbound audio chunks
MaxOutClock == 4      \* the clock of an output context stops here, in ticks
MaxDuration == 2      \* ticks of audio in one chunk

Attempts == 1..MaxAttempts
Timers == 1..MaxTimers

\* ------------------------------------------------------- program constants
TICK_MS == 5000       \* the clock advances by the refresh interval
CLOSE_RETRY_MS == 3000
ERROR_RETRY_MS == 5000

NoRef == 0            \* a ref holding null
StaleHandle == -1     \* a timer handle whose timer has fired or was cleared

VARIABLES
    phase,                \* "init" | "mounted" | "unmounted" (component life)
    apiKey,               \* the apiKey prop captured by the first render
    isActive,             \* React state isActive: the value last set (after the
                          \* unmount no render reads it any more)
    isActiveRef,          \* isActiveRef.current (value of the last render)
    statusText,           \* React state statusText
    error,                \* React state error ("" is null)
    currentSessionRef,    \* attempt whose Session it holds, or NoRef
    inputContextRef,      \* attempt whose input AudioContext it holds
    outputContextRef,     \* attempt whose output AudioContext it holds
    processorRef,         \* attempt whose ScriptProcessorNode it holds
    sourceRef,            \* attempt whose MediaStreamAudioSourceNode it holds
    reconnectTimeoutRef,  \* NoRef, a pending timer, or StaleHandle
    timers,               \* the browser's timer table for setTimeout(startSession)
    attempts,             \* one record per startSession call past the guards
    leaks,                \* what finished attempts left behind unreleased
    \* ---- WebcamCapture (services/menuData.ts)
    camPhase,             \* "init" | "mounted" | "unmounted"
    camRequest,           \* the getUserMedia call of startCamera: "none" | "pending"
    camStream,            \* the camera stream acquired: "none" | "live" | "stopped"
    srcObject,            \* does videoRef.current.srcObject hold the stream
    streamActive,         \* React state streamActive
    camError,             \* React state error of WebcamCapture ("" is null)
    isProcessing,         \* the isProcessing prop
    captured,             \* number of onCapture calls
    \* ---- tool calls and the wire
    now,                  \* Date.now(), in ms
    nextId,               \* stands for crypto.randomUUID(): the next fresh id
    recentOrders,         \* the parent's order list (the recentOrders prop)
    recentInsights,       \* the parent's insight list (the recentInsights prop)
    recentOrdersRef,      \* recentOrdersRef.current
    sessionHistory,       \* React state sessionHistory
    cashierPrompt,        \* React state cashierPrompt
    currentSentiment,     \* React state currentSentiment
    promptTimers,         \* due times of the pending timers of line 570
    sentimentTimers,      \* due times of the pending timers of line 576
    received,             \* tool-call messages delivered to the established session
    lastMessage,          \* the message the step just taken handled, if any
    wire,                 \* what the step just taken sent on a connection
    lookupQuery,          \* the argument of a call of findMenuItem
    lookupResult,         \* what the call returned, once it has: <<index>>
    csvField,             \* the argument of a call of sanitizeForCsv
    csvText,              \* what the call returned, once it has: <<string>>
    logs,                 \* the logs prop of LogHistory
    csvFile,              \* the data rows of the CSV file last written
    currentTime,          \* React state currentTime, ms
    analysis,             \* the last call of analyzeImageForCount and the requests
                          \* the service has issued so far
    audio                 \* the playback of inbound audio: output context, its
                          \* clock, nextStartTimeRef, sourcesRef, isSpeaking

sessionVars == <<phase, apiKey, isActive, isActiveRef, statusText, error,
                 currentSessionRef, inputContextRef, outputContextRef,
                 processorRef, sourceRef, reconnectTimeoutRef, timers, attempts,
                 leaks>>

camVars == <<camPhase, camRequest, camStream, srcObject,
             streamActive, camError, isProcessing, captured>>

toolVars == <<nextId, recentOrders, recentInsights, sessionHistory, cashierPrompt,
              currentSentiment, promptTimers, sentimentTimers>>

\* The variables of the models of single functions and of the display.
unitVars == <<lookupQuery, lookupResult, csvField, csvText, logs, csvFile, currentTime,
              analysis, audio>>

vars == <<sessionVars, camVars, toolVars, now, recentOrdersRef, received,
          lastMessage, wire, unitVars>>

\* A step that handles no message and sends nothing.
Quiet == lastMessage' = [conn |-> 0, calls |-> <<>>, threw |-> <<>>, before |-> <<>>]
            /\ wire' = <<>>

\* What a callback of the session manager leaves alone, and a callback of
\* the camera component.
SessionOnly == Quiet /\ UNCHANGED <<camVars, toolVars, now, recentOrdersRef, received,
                                     unitVars>>
CameraOnly == Quiet /\ UNCHANGED <<sessionVars, toolVars, now, recentOrdersRef, received,
                                    unitVars>>

\* ------------------------------------------------------------------ state
\* The playback state of an established session before any audio: the output
\* context of line 374 is running, nextStartTimeRef is 0 (line 250) and
\* sourcesRef is empty (line 251).
NoAudio == [ctx |-> "running", conn |-> "open", currentTime |-> 0, nextStartTime |-> 0,
            sources |-> {}, isSpeaking |-> FALSE, decoding |-> <<>>,
            scheduled |-> <<>>, chunks |-> 0]

\* No call of analyzeImageForCount yet.
NoAnalysis == [requests |-> 0, settled |-> "none", message |-> ""]

FreeTimer == [state |-> "free", delay |-> 0, ripe |-> FALSE]

\* pc   : where the async startSession of this attempt is suspended
\* mic  : the MediaStream returned by getUserMedia
\* inCtx/outCtx : the two AudioContext objects it created
\* conn : the connection ai.live.connect opened for it
\* proc : the ScriptProcessorNode its onopen created
FreeAttempt == [pc |-> "free", mic |-> "none", inCtx |-> "none",
                outCtx |-> "none", conn |-> "none", opened |-> FALSE,
                proc |-> "none"]

SessionInit ==
    /\ phase = "init"
    /\ apiKey \in {"", "key"}
    /\ isActive = FALSE
    /\ isActiveRef = FALSE
    /\ statusText = "INITIALIZING..."
    /\ error = ""
    /\ currentSessionRef = NoRef
    /\ inputContextRef = NoRef
    /\ outputContextRef = NoRef
    /\ processorRef = NoRef
    /\ sourceRef = NoRef
    /\ reconnectTimeoutRef = NoRef
    /\ timers = [t \in Timers |-> FreeTimer]
    /\ attempts = [a \in Attempts |-> FreeAttempt]
    /\ leaks = {}

CameraInit ==
    /\ camPhase = "init"
    /\ camRequest = "none"
    /\ camStream = "none"
    /\ srcObject = FALSE
    /\ streamActive = FALSE
    /\ camError = ""
    /\ isProcessing = FALSE
    /\ captured = 0


\* ------------------------------------------------------------ setTimeout
PendingTimers(tm) == {t \in Timers : tm[t].state = "pending"}
HasFreeTimer(tm) == \E t \in Timers : tm[t].state = "free"
NextTimer(tm) == CHOOSE t \in Timers :
                    /\ tm[t].state = "free"
                    /\ \A u \in Timers : tm[u].state = "free" => t <= u

\* window.setTimeout(startSession, delay).  A timer is ripe once every render
\* that was pending when it was set has been committed: the delays are
\* seconds, a render takes milliseconds.
SetTimeout(tm, delay, renderPending) ==
    [tm EXCEPT ![NextTimer(tm)] =
        [state |-> "pending", delay |-> delay, ripe |-> ~renderPending]]

\* clearTimeout(handle)
ClearTimeout(tm, handle) ==
    IF handle \in Timers THEN [tm EXCEPT ![handle] = FreeTimer] ELSE tm

\* ----------------------------------------------------------- stopSession
\* stopSession, lines 653-694, on the attempt table: closes the session the
\* ref holds, disconnects the processor and source the refs hold, closes the
\* contexts the refs hold.  The microphone stream is not touched.
stopSessionAttempts(att, cur, inCtx, outCtx, procR) ==
    [a \in Attempts |->
        [att[a] EXCEPT
            !.conn = IF a = cur /\ @ = "open" THEN "closing" ELSE @,
            !.proc = IF a = procR /\ @ = "connected" THEN "disconnected" ELSE @,
            !.inCtx = IF a = inCtx /\ @ = "open" THEN "closed" ELSE @,
            !.outCtx = IF a = outCtx /\ @ = "open" THEN "closed" ELSE @]]

\* stopSession on the current refs
stopSession(att) ==
    stopSessionAttempts(att, currentSessionRef, inputContextRef,
                        outputContextRef, processorRef)

\* A render is pending when the state differs from what the last render saw.
RenderPending(active) == phase /= "unmounted" /\ active /= isActiveRef

\* --------------------------------------------------- objects of an attempt
\* The processor of an attempt delivers audio while it is connected and its
\* context is running.
ProcessorRuns(r) == r.proc = "connected" /\ r.inCtx = "open"

\* An attempt is over when its startSession has returned (or hangs on a
\* promise that never settles), its connection is closed and its processor is
\* silent: no callback of it can run any more.
Over(r) ==
    /\ r.pc \in {"done", "hung"}
    /\ r.conn \in {"none", "closed"}
    /\ ~ProcessorRuns(r)

\* What an attempt that is over leaves unreleased.
Left(r) ==
    (IF r.mic = "live" THEN {"mic"} ELSE {})
    \cup (IF r.inCtx = "open" \/ r.outCtx = "open" THEN {"ctx"} ELSE {})

\* The new values of the attempt table and of the five object refs.  An
\* attempt that is over and that no ref holds is garbage: its record is
\* dropped and what it left unreleased is remembered in leaks.
Commit(att, cur, inC, outC, procR, srcR) ==
    LET held == {cur, inC, outC, procR, srcR}
        gone == {a \in Attempts : att[a].pc /= "free" /\ Over(att[a]) /\ a \notin held}
    IN /\ attempts' = [a \in Attempts |-> IF a \in gone THEN FreeAttempt ELSE att[a]]
       /\ leaks' = leaks \cup UNION {Left(att[a]) : a \in gone}
       /\ currentSessionRef' = cur
       /\ inputContextRef' = inC
       /\ outputContextRef' = outC
       /\ processorRef' = procR
       /\ sourceRef' = srcR

\* stopSession, lines 653-694: the attempt table after it, every ref null.
Stopped(att) == Commit(stopSession(att), NoRef, NoRef, NoRef, NoRef, NoRef)

\* ----------------------------------------------------------- startSession
\* The catch block of startSession, lines 643-650.
Catch(att, tm, msg) ==
    /\ HasFreeTimer(tm)
    /\ error' = msg
    /\ statusText' = "OFFLINE - RETRYING"
    /\ isActive' = FALSE
    /\ Stopped(att)
    /\ timers' = SetTimeout(tm, ERROR_RETRY_MS, RenderPending(isActive'))
    /\ reconnectTimeoutRef' = NextTimer(tm)
    /\ UNCHANGED <<apiKey, isActiveRef>>

\* startSession from its entry to its first await (getUserMedia), lines
\* 344-367.  tm and rt are the timer table and the stored handle as the
\* caller left them.
startSession(tm, rt) ==
    IF isActiveRef
    THEN /\ timers' = tm
         /\ reconnectTimeoutRef' = rt
         /\ UNCHANGED <<apiKey, isActive, isActiveRef, statusText, error,
                        currentSessionRef, inputContextRef, outputContextRef,
                        processorRef, sourceRef, attempts, leaks>>
    ELSE \E online \in BOOLEAN :
            IF ~online
            THEN Catch(attempts, tm, "Network Offline")
            ELSE IF apiKey = ""
            THEN Catch(attempts, tm, "API Key missing")
            ELSE \E a \in Attempts :
                    /\ attempts[a].pc = "free"
                    /\ \A b \in Attempts : attempts[b].pc = "free" => a <= b
                    /\ Stopped([attempts EXCEPT ![a].pc = "awaitMic"])
                    /\ isActive' = FALSE
                    /\ error' = ""
                    /\ statusText' = "CONNECTING..."
                    /\ timers' = tm
                    /\ reconnectTimeoutRef' = rt
                    /\ UNCHANGED <<apiKey, isActiveRef>>

\* The mount effect, lines 256-272: init() calls startSession.
Mount ==
    /\ SessionOnly
    /\ phase = "init"
    /\ phase' = "mounted"
    /\ startSession(timers, reconnectTimeoutRef)

\* The cleanup of the mount effect, lines 274-277.
Unmount ==
    /\ SessionOnly
    /\ phase = "mounted"
    /\ phase' = "unmounted"
    /\ timers' = ClearTimeout(timers, reconnectTimeoutRef)
    /\ reconnectTimeoutRef' =
          IF reconnectTimeoutRef \in Timers THEN StaleHandle ELSE reconnectTimeoutRef
    /\ Stopped(attempts)
    /\ isActive' = FALSE
    /\ UNCHANGED <<apiKey, isActiveRef, statusText, error>>

\* The effect of lines 234-236, run by the render that follows a setIsActive.
SyncIsActiveRef ==
    /\ SessionOnly
    /\ phase = "mounted"
    /\ isActiveRef /= isActive
    /\ isActiveRef' = isActive
    /\ timers' = [t \in Timers |->
                    IF timers[t].state = "pending"
                    THEN [timers[t] EXCEPT !.ripe = TRUE] ELSE timers[t]]
    /\ UNCHANGED <<phase, apiKey, isActive, statusText, error, currentSessionRef,
                   inputContextRef, outputContextRef, processorRef, sourceRef,
                   reconnectTimeoutRef, attempts, leaks>>

\* A reconnect timer fires: the browser calls startSession.
TimerFire(t) ==
    /\ SessionOnly
    /\ timers[t].state = "pending"
    /\ timers[t].ripe
    /\ startSession([timers EXCEPT ![t] = FreeTimer],
                    IF reconnectTimeoutRef = t THEN StaleHandle
                    ELSE reconnectTimeoutRef)
    /\ UNCHANGED phase

\* handleResumeAudio, lines 338-342: a tap on the status bar.  The isActive it
\* reads is the one of the last render, which is what isActiveRef holds.
handleResumeAudio ==
    /\ SessionOnly
    /\ phase = "mounted"
    /\ ~isActiveRef
    /\ startSession(timers, reconnectTimeoutRef)
    /\ UNCHANGED phase

\* getUserMedia resolves: lines 372-419, up to the await of the connect.
MicGranted(a) ==
    /\ SessionOnly
    /\ attempts[a].pc = "awaitMic"
    /\ Commit([attempts EXCEPT ![a] =
                 [@ EXCEPT !.pc = "awaitConnect", !.mic = "live", !.inCtx = "open",
                           !.outCtx = "open", !.conn = "connecting"]],
              currentSessionRef, a, a, processorRef, sourceRef)
    /\ UNCHANGED <<phase, apiKey, isActive, isActiveRef, statusText, error,
                   reconnectTimeoutRef, timers>>

\* getUserMedia rejects: lines 368-370, then the catch block.
MicRefused(a) ==
    /\ SessionOnly
    /\ attempts[a].pc = "awaitMic"
    /\ Catch([attempts EXCEPT ![a].pc = "done"], timers, "Mic Error")
    /\ UNCHANGED phase

\* The connect promise resolves: lines 640-641.
ConnectResolved(a) ==
    /\ SessionOnly
    /\ attempts[a].pc = "awaitConnect"
    /\ attempts[a].opened
    /\ Commit([attempts EXCEPT ![a].pc = "done"],
              a, inputContextRef, outputContextRef, processorRef, sourceRef)
    /\ UNCHANGED <<phase, apiKey, isActive, isActiveRef, statusText, error,
                   reconnectTimeoutRef, timers>>

\* The connect promise rejects before the connection opened: catch block.
ConnectRejected(a) ==
    /\ SessionOnly
    /\ attempts[a].pc = "awaitConnect"
    /\ attempts[a].conn = "connecting"
    /\ Catch([attempts EXCEPT ![a] = [@ EXCEPT !.pc = "done", !.conn = "closed"]],
             timers, "Connect failed")
    /\ UNCHANGED phase

\* callbacks.onopen, lines 451-478.
OnOpen(a) ==
    /\ SessionOnly
    /\ attempts[a].conn = "connecting"
    /\ Commit([attempts EXCEPT ![a] =
                 [@ EXCEPT !.conn = "open", !.opened = TRUE, !.proc = "connected"]],
              currentSessionRef, inputContextRef, outputContextRef, a, a)
    /\ isActive' = TRUE
    /\ statusText' = "SURVEILLANCE ACTIVE"
    /\ UNCHANGED <<phase, apiKey, isActiveRef, error, reconnectTimeoutRef, timers>>

\* callbacks.onerror, lines 631-636.  The socket that reported the error is
\* dead: only its close event is still to come.
OnError(a) ==
    /\ SessionOnly
    /\ attempts[a].conn \in {"connecting", "open", "closing"}
    /\ HasFreeTimer(timers)
    /\ statusText' = "CONNECTION ERROR. RETRYING..."
    /\ isActive' = FALSE
    /\ Stopped([attempts EXCEPT ![a].conn = "errored"])
    /\ timers' = SetTimeout(timers, ERROR_RETRY_MS, RenderPending(isActive'))
    /\ reconnectTimeoutRef' = NextTimer(timers)
    /\ UNCHANGED <<phase, apiKey, isActiveRef, error>>

\* callbacks.onclose, lines 623-630.  A connect whose socket closes before it
\* opened never settles its promise.
OnClose(a) ==
    /\ SessionOnly
    /\ attempts[a].conn \in {"open", "closing", "errored"}
    /\ LET att == [attempts EXCEPT ![a] =
                    [@ EXCEPT !.conn = "closed",
                              !.pc = IF @ = "awaitConnect" /\ ~attempts[a].opened
                                     THEN "hung" ELSE @]]
       IN IF isActiveRef
          THEN /\ HasFreeTimer(timers)
               /\ statusText' = "RECONNECTING..."
               /\ isActive' = FALSE
               /\ Stopped(att)
               /\ timers' = SetTimeout(timers, CLOSE_RETRY_MS, RenderPending(isActive'))
               /\ reconnectTimeoutRef' = NextTimer(timers)
               /\ UNCHANGED <<phase, apiKey, isActiveRef, error>>
          ELSE /\ Commit(att, currentSessionRef, inputContextRef,
                         outputContextRef, processorRef, sourceRef)
               /\ UNCHANGED <<phase, apiKey, isActive, isActiveRef, statusText,
                              error, reconnectTimeoutRef, timers>>

\* ================================================================ strings
\* String.prototype.toLowerCase on the characters the catalog and the
\* queries use.
Upper == "ABCDEFGHIJKLMNOPQRSTUVWXYZ"
Lower == "abcdefghijklmnopqrstuvwxyz"
LowerChar(c) ==
    IF \E i \in 1..Len(Upper) : SubSeq(Upper, i, i) = c
    THEN LET i == CHOOSE i \in 1..Len(Upper) : SubSeq(Upper, i, i) = c
         IN SubSeq(Lower, i, i)
    ELSE c

asTyped(s) == s
RECURSIVE toLowerCase(_)
toLowerCase(s) ==
    IF s = "" THEN ""
    ELSE LowerChar(SubSeq(s, 1, 1)) \o toLowerCase(SubSeq(s, 2, Len(s)))

\* String.prototype.trim: leading and trailing blanks removed.
RECURSIVE trimStart(_)
trimStart(s) ==
    IF s /= "" /\ SubSeq(s, 1, 1) = " " THEN trimStart(SubSeq(s, 2, Len(s))) ELSE s
RECURSIVE trimEnd(_)
trimEnd(s) ==
    IF s /= "" /\ SubSeq(s, Len(s), Len(s)) = " "
    THEN trimEnd(SubSeq(s, 1, Len(s) - 1)) ELSE s
trim(s) == trimEnd(trimStart(s))

\* String.prototype.includes
includes(s, q) ==
    \E i \in 1..(Len(s) - Len(q) + 1) : SubSeq(s, i, i + Len(q) - 1) = q

\* ============================================================ menu catalog
SHOP_MENU == <<
    [name |-> "Samosa", price |-> 10, category |-> "KACHORI",
     variations |-> <<"samose", "samosa", "aloovada samosa", "singhara", "samosas", "samosaa">>],
    [name |-> "Kachori", price |-> 30, category |-> "KACHORI",
     variations |-> <<"kachori", "kachodi", "khasta", "pyaaz kachori", "pyaz wali", "kanda kachori", "moti wali", "kachoris", "kachoriyan">>],
    [name |-> "Dal Kachori", price |-> 15, category |-> "KACHORI",
     variations |-> <<"dal kachori", "moong dal", "choti kachori", "bina pyaaz ki", "sadi kachori", "plain kachori">>],
    [name |-> "Aloovada", price |-> 15, category |-> "KACHORI",
     variations |-> <<"aloo vada", "batata vada", "bada", "aloo bonda", "vada">>],
    [name |-> "Mirchi Vada", price |-> 25, category |-> "KACHORI",
     variations |-> <<"mirchi vada", "mirchi bada", "jodhpur mirchi", "badi mirchi">>],
    [name |-> "Lassan Kofta", price |-> 20, category |-> "KACHORI",
     variations |-> <<"lassan kofta", "kofta", "lahsun kofta", "garlic kofta">>],
    [name |-> "Khaman 1kg", price |-> 300, category |-> "KACHORI",
     variations |-> <<"khaman", "dhokla", "khaman dhokla">>],
    [name |-> "Khaman 250gm", price |-> 75, category |-> "KACHORI",
     variations |-> <<"khaman pav", "khaman 250">>],
    [name |-> "Khaman 1 Plate", price |-> 30, category |-> "KACHORI",
     variations |-> <<"khaman plate", "khaman ki plate">>],
    [name |-> "Dhona", price |-> 1, category |-> "KACHORI",
     variations |-> <<"dhona", "pattal", "plate", "khali bowl">>],
    [name |-> "Small Chutney", price |-> 5, category |-> "KACHORI",
     variations |-> <<"chutney", "chatni", "extra chutney", "meethi chatni", "khatti chatni">>],
    [name |-> "Jalebi 1kg", price |-> 440, category |-> "JALEBI",
     variations |-> <<"jalebi", "sweet", "kesar jalebi", "1 kilo jalebi">>],
    [name |-> "Imarti 1kg", price |-> 500, category |-> "JALEBI",
     variations |-> <<"imarti", "jangri", "moti jalebi", "imarati">>],
    [name |-> "Jalebi 1 Plate", price |-> 45, category |-> "JALEBI",
     variations |-> <<"jalebi plate", "thodi jalebi">>],
    [name |-> "Imarti 1 Plate", price |-> 50, category |-> "JALEBI",
     variations |-> <<"imarti plate">>],
    [name |-> "Sweets", price |-> 400, category |-> "SWEETS",
     variations |-> <<"mithai", "box", "mithai ka dabba">>],
    [name |-> "Namkeen 1 Kg", price |-> 300, category |-> "NAMKEEN 1 KG",
     variations |-> <<"namkeen", "mixture", "sev", "bhujia">>],
    [name |-> "SEB BOONDI MIX (1 KG)", price |-> 300, category |-> "NAMKEEN 1 KG",
     variations |-> <<"seb boondi", "boondi mix">>],
    [name |-> "FEEKI PAPDI (1 KG)", price |-> 280, category |-> "NAMKEEN 1 KG",
     variations |-> <<"feeki papdi", "papdi">>],
    [name |-> "GATHIYA (1 KG)", price |-> 280, category |-> "NAMKEEN 1 KG",
     variations |-> <<"gathiya", "ganthiya">>],
    [name |-> "SAFED SEB (1 KG)", price |-> 280, category |-> "NAMKEEN 1 KG",
     variations |-> <<"safed sev", "white sev">>],
    [name |-> "KADKE (1 KG)", price |-> 280, category |-> "NAMKEEN 1 KG",
     variations |-> <<"kadke">>],
    [name |-> "LAHSUN SEB (1 KG)", price |-> 300, category |-> "NAMKEEN 1 KG",
     variations |-> <<"lahsun sev", "garlic sev">>],
    [name |-> "PODINA SEB (1 KG)", price |-> 300, category |-> "NAMKEEN 1 KG",
     variations |-> <<"podina sev", "mint sev">>],
    [name |-> "BHAV NAGRI (1 KG)", price |-> 280, category |-> "NAMKEEN 1 KG",
     variations |-> <<"bhavnagri", "bhav nagari">>],
    [name |-> "NAI SEB (1 KG)", price |-> 280, category |-> "NAMKEEN 1 KG",
     variations |-> <<"nai sev", "nylon sev">>],
    [name |-> "HARA MIX (1 KG)", price |-> 320, category |-> "NAMKEEN 1 KG",
     variations |-> <<"hara mix", "green mix">>],
    [name |-> "FALHARI SABUDANA (1 KG)", price |-> 320, category |-> "NAMKEEN 1 KG",
     variations |-> <<"sabudana", "falhari">>],
    [name |-> "KAJU MIXTURE (1 KG)", price |-> 320, category |-> "NAMKEEN 1 KG",
     variations |-> <<"kaju mix", "cashew mix">>],
    [name |-> "MASALA MIX (1 KG)", price |-> 280, category |-> "NAMKEEN 1 KG",
     variations |-> <<"masala mix">>],
    [name |-> "KHATTA MEETHA MIX (1 KG)", price |-> 300, category |-> "NAMKEEN 1 KG",
     variations |-> <<"khatta meetha">>],
    [name |-> "Lassi", price |-> 60, category |-> "DRINKS",
     variations |-> <<"lassi", "chas", "chaach", "buttermilk">>],
    [name |-> "Water Bottle Small", price |-> 10, category |-> "DRINKS",
     variations |-> <<"pani", "water", "choti botal", "paani">>],
    [name |-> "Water Bottle", price |-> 20, category |-> "DRINKS",
     variations |-> <<"pani ki bottle", "bisleri", "badi bottle">>]
>>

\* item.name.toLowerCase() and v.toLowerCase() for every item and variation
\* of the catalog, evaluated once.
MENU_LOWER ==
    [i \in 1..Len(SHOP_MENU) |->
        [name |-> toLowerCase(SHOP_MENU[i].name),
         variations |-> [k \in 1..Len(SHOP_MENU[i].variations) |->
                            toLowerCase(SHOP_MENU[i].variations[k])]]]

\* Array.prototype.find: the first of the indices whose item satisfies the
\* predicate, 0 for undefined.
find(found) ==
    IF found = {} THEN 0
    ELSE CHOOSE i \in found : \A j \in found : i <= j

SubstringFirst(exact, variation, substring) ==
    IF exact /= 0 THEN exact
    ELSE IF substring /= 0 THEN substring
    ELSE variation
\* The three finds of lines 186-191 for the normalized query q.
FirstMatch(exact, variation, substring) ==
    IF exact /= 0 THEN exact
    ELSE IF variation /= 0 THEN variation
    ELSE substring
byName(q) == {i \in 1..Len(MENU_LOWER) : MENU_LOWER[i].name = q}
noVariation(q) == {}
byVariation(q) ==
    {i \in 1..Len(MENU_LOWER) :
        \E k \in 1..Len(MENU_LOWER[i].variations) : MENU_LOWER[i].variations[k] = q}
bySubstring(q) ==
    {i \in 1..Len(MENU_LOWER) :
        includes(MENU_LOWER[i].name, q) \/ includes(q, MENU_LOWER[i].name)}
FindNormalized(q) ==
    FirstMatch(find(byName(q)), find(byVariation(q)), find(bySubstring(q)))

\* findMenuItem, lines 184-192: index of the item found, 0 for undefined.
findMenuItem(query) == FindNormalized(trim(toLowerCase(query)))

\* ====================================================== JavaScript values
\* A value of the model's payloads: t is its type tag, n the payload of a
\* number, s of a string, a of an array, o the fields of an object.
Undef == [t |-> "undefined", n |-> 0, s |-> "", a |-> <<>>, o |-> <<>>]
Null == [t |-> "null", n |-> 0, s |-> "", a |-> <<>>, o |-> <<>>]
NaN == [t |-> "NaN", n |-> 0, s |-> "", a |-> <<>>, o |-> <<>>]
Num(n) == [t |-> "number", n |-> n, s |-> "", a |-> <<>>, o |-> <<>>]
Str(s) == [t |-> "string", n |-> 0, s |-> s, a |-> <<>>, o |-> <<>>]
Arr(a) == [t |-> "array", n |-> 0, s |-> "", a |-> a, o |-> <<>>]
Obj(o) == [t |-> "object", n |-> 0, s |-> "", a |-> <<>>, o |-> o]

\* typeof v === 'object'
IsObjectType(v) == v.t \in {"object", "array", "null"}
\* ToBoolean
Truthy(v) ==
    CASE v.t \in {"undefined", "null", "NaN"} -> FALSE
      [] v.t = "number" -> v.n /= 0
      [] v.t = "string" -> v.s /= ""
      [] OTHER -> TRUE
\* The right operand whatever the left one is.
alwaysDefault(a, b) == b
\* a || b
Or(a, b) == IF Truthy(a) THEN a ELSE b
\* v.k throws a TypeError on undefined and null
ReadThrows(v) == v.t \in {"undefined", "null"}
\* v.k where it does not throw
Get(v, k) == IF v.t = "object" /\ k \in DOMAIN v.o THEN v.o[k] ELSE Undef

\* Number(v), on the strings the model uses: a string of digits is its value,
\* the empty string 0, any other string NaN.
Digits == "0123456789"
DigitValue(c) == (CHOOSE i \in 1..10 : SubSeq(Digits, i, i) = c) - 1
IsDigits(s) == \A i \in 1..Len(s) : includes(Digits, SubSeq(s, i, i))
RECURSIVE ParseDigits(_)
ParseDigits(s) ==
    IF s = "" THEN 0
    ELSE 10 * ParseDigits(SubSeq(s, 1, Len(s) - 1)) + DigitValue(SubSeq(s, Len(s), Len(s)))
ToNumber(v) ==
    CASE v.t = "number" -> v
      [] v.t = "string" -> IF IsDigits(trim(v.s)) THEN Num(ParseDigits(trim(v.s))) ELSE NaN
      [] v.t = "null" -> Num(0)
      [] v.t = "array" /\ v.a = <<>> -> Num(0)
      [] OTHER -> NaN
\* a + b and a * b on numbers
Add(a, b) == IF a.t = "NaN" \/ b.t = "NaN" THEN NaN ELSE Num(a.n + b.n)
Mul(a, b) == IF a.t = "NaN" \/ b.t = "NaN" THEN NaN ELSE Num(a.n * b.n)

\* String(v), on strings and non-negative integers
RECURSIVE FormatDigits(_)
FormatDigits(n) ==
    IF n < 10 THEN SubSeq(Digits, n + 1, n + 1)
    ELSE FormatDigits(n \div 10) \o SubSeq(Digits, (n % 10) + 1, (n % 10) + 1)
StringOf(v) ==
    CASE v.t = "string" -> v.s
      [] v.t = "number" -> IF v.n < 0 THEN "-" \o FormatDigits(-v.n) ELSE FormatDigits(v.n)
      [] v.t = "object" -> "[object Object]"
      [] OTHER -> v.t

\* ============================================================== tool calls
\* The state a tool call reads and writes: the parent's lists (recentOrders,
\* recentInsights), sessionHistory, the prompt and sentiment states and their
\* expiry timers, and the ids handed out.
PROMPT_MS == 10000
SENTIMENT_MS == 15000
MERGE_WINDOW_MS == 10000
TOTAL_LOOKBACK_MS == 300000

NoPrompt == [shown |-> FALSE, text |-> "", total |-> Undef, reason |-> Undef]
NoSentiment == [shown |-> FALSE, type |-> Undef, summary |-> Undef]

\* The outcome of the try block of one tool call: did it throw, the status of
\* result as last assigned (it starts as "Success"), the state.
Outcome(threw, status, st) == [threw |-> threw, status |-> status, st |-> st]

\* A handler that takes arrays and wrapped arrays only.
listsOnly(args) ==
    IF args.t = "array" THEN args.a
    ELSE IF args.t = "object" /\ "items" \in DOMAIN args.o /\ args.o.items.t = "array"
    THEN args.o.items.a
    ELSE <<>>

\* The rawItems of a logOrder payload, lines 486-490.
RawItemsThrows(args) == args.t /= "array" /\ ReadThrows(args)
RawItems(args) ==
    IF args.t = "array" THEN args.a
    ELSE IF Truthy(Get(args, "items")) /\ Get(args, "items").t = "array"
    THEN Get(args, "items").a
    ELSE IF IsObjectType(args) THEN <<args>>
    ELSE <<>>

\* One pass of the loop of lines 494-508 over item i: it throws, skips the
\* item (continue) or pushes the normalized item.
rawNameOf(i) == IF i.t = "string" THEN i
                ELSE Or(Or(Get(i, "name"), Get(i, "item")), Str(""))
rawQtyOf(i) == IF IsObjectType(i)
               THEN Or(Or(Get(i, "quantity"), Get(i, "qty")), Num(1)) ELSE Num(1)
rawNotesOf(i) == IF IsObjectType(i) THEN Or(Get(i, "notes"), Str("")) ELSE Str("")
ItemThrows(i) ==
    \/ i.t /= "string" /\ ReadThrows(i)
    \/ /\ Truthy(rawNameOf(i))
       /\ rawNameOf(i).t /= "string"      \* query.toLowerCase is not a function
ItemSkipped(i) ==
    \/ ~Truthy(rawNameOf(i))
    \/ rawNameOf(i).t = "string" /\ rawNameOf(i).s = "Unknown Item"
rawNameKept(rawName, matchedMenu) == rawName
finalName(rawName, matchedMenu) ==
    IF matchedMenu /= 0 THEN SHOP_MENU[matchedMenu].name ELSE rawName
notesOf(rawNotes) == IF Truthy(rawNotes) THEN Str(StringOf(rawNotes)) ELSE Undef
NormalizedItem(i) ==
    [name |-> finalName(rawNameOf(i).s, findMenuItem(rawNameOf(i).s)),
     quantity |-> ToNumber(rawQtyOf(i)),
     notes |-> notesOf(rawNotesOf(i))]

\* normalizedItems.push(item), where rest is what the later passes do.
Pushed(item, rest) ==
    [threw |-> rest.threw,
     items |-> IF rest.threw THEN <<>> ELSE <<item>> \o rest.items]

\* The loop of lines 494-508: the items pushed, unless a pass throws.
RECURSIVE NormalizeItems(_)
NormalizeItems(rawItems) ==
    IF rawItems = <<>> THEN [threw |-> FALSE, items |-> <<>>]
    ELSE LET i == Head(rawItems)
         IN IF i.t /= "string" /\ ReadThrows(i) THEN [threw |-> TRUE, items |-> <<>>]
            ELSE IF ItemSkipped(i) THEN NormalizeItems(Tail(rawItems))
            ELSE IF ItemThrows(i) THEN [threw |-> TRUE, items |-> <<>>]
            ELSE Pushed(NormalizedItem(i), NormalizeItems(Tail(rawItems)))

\* totalAmount, lines 520-523 and 533-536.
itemAmount(item, m) ==
    IF m /= 0 THEN Mul(Num(SHOP_MENU[m].price), item.quantity) ELSE Num(0)
RECURSIVE totalAmount(_)
totalAmount(items) ==
    IF items = <<>> THEN Num(0)
    ELSE Add(totalAmount(SubSeq(items, 1, Len(items) - 1)),
             itemAmount(items[Len(items)], findMenuItem(items[Len(items)].name)))

\* The ShopOrder built at lines 515-524 and again at 528-537.
NewOrder(items, st, nowMs) ==
    [id |-> st.nextId, timestamp |-> nowMs, items |-> items, status |-> "pending",
     totalAmount |-> totalAmount(items)]

\* The parent's onNewOrder and onNewInsight: the new record goes to the front
\* of the list the parent passes back as recentOrders / recentInsights.
onNewOrder(list, order) == <<order>> \o list
onNewInsight(list, insight) == <<insight>> \o list

\* A transcript that keeps the latest order only.
OrderReplaces(order, st) ==
    [st EXCEPT !.nextId = @ + 1,
               !.recentOrders = onNewOrder(@, order),
               !.history.orders = <<order>>,
               !.cashierPrompt = NoPrompt]

\* Emitting an order, lines 525-526 and 538-539, then line 541.
OrderLogged(order, st) ==
    [st EXCEPT !.nextId = @ + 1,
               !.recentOrders = onNewOrder(@, order),
               !.history.orders = Append(@, order),
               !.cashierPrompt = NoPrompt]

\* logOrder, lines 485-546.  lastOrder is recentOrdersRef.current[0].
logNormalized(normalized, st, ordersRef, nowMs) ==
    IF normalized.threw THEN Outcome(TRUE, "Success", st)
    ELSE IF Len(normalized.items) > 0
    THEN IF ordersRef /= <<>> /\ nowMs - ordersRef[1].timestamp < MERGE_WINDOW_MS
         THEN Outcome(FALSE, "Order Logged",
                      OrderLogged(NewOrder(normalized.items, st, nowMs), st))
         ELSE Outcome(FALSE, "Order Logged",
                      OrderLogged(NewOrder(normalized.items, st, nowMs), st))
    ELSE Outcome(FALSE, "Empty/Unknown Order Ignored", st)
logOrder(args, st, ordersRef, nowMs) ==
    IF RawItemsThrows(args) THEN Outcome(TRUE, "Success", st)
    ELSE logNormalized(NormalizeItems(RawItems(args)), st, ordersRef, nowMs)

\* saveInsight, lines 547-559.
saveInsight(args, st, nowMs) ==
    IF ReadThrows(args) THEN Outcome(TRUE, "Success", st)
    ELSE LET insight == [id |-> st.nextId, timestamp |-> nowMs,
                         category |-> Get(args, "category"),
                         content |-> Get(args, "content"),
                         severity |-> Or(Get(args, "severity"), Str("low"))]
         IN Outcome(FALSE, "Insight Saved",
                    [st EXCEPT !.nextId = @ + 1,
                               !.recentInsights = onNewInsight(@, insight),
                               !.history.insights = Append(@, insight)])

\* The sum of lines 563-565 over recentOrdersRef.current.
RECURSIVE recentTotal(_, _)
recentTotal(ordersRef, nowMs) ==
    IF ordersRef = <<>> THEN Num(0)
    ELSE LET o == ordersRef[Len(ordersRef)]
             rest == recentTotal(SubSeq(ordersRef, 1, Len(ordersRef) - 1), nowMs)
         IN IF nowMs - o.timestamp < TOTAL_LOOKBACK_MS
            THEN Add(rest, Or(o.totalAmount, Num(0))) ELSE rest

\* suggestCashierPrompt, lines 560-572.
MentionsTotal(v) == includes(toLowerCase(v.s), "total")
suggestCashierPrompt(args, st, ordersRef, nowMs) ==
    IF ReadThrows(args) THEN Outcome(TRUE, "Success", st)
    ELSE LET promptText == Get(args, "promptText")
             reason == Get(args, "reason")
         IN IF promptText.t /= "string" THEN Outcome(TRUE, "Success", st)
            ELSE IF ~MentionsTotal(promptText) /\ reason.t /= "string"
            THEN Outcome(TRUE, "Success", st)
            ELSE Outcome(FALSE, "Prompt Displayed",
                    [st EXCEPT
                        !.cashierPrompt =
                            IF MentionsTotal(promptText) \/ MentionsTotal(reason)
                            THEN [shown |-> TRUE, text |-> "Total is ",
                                  total |-> recentTotal(ordersRef, nowMs),
                                  reason |-> Str("Calculated from recent active orders")]
                            ELSE [shown |-> TRUE, text |-> promptText.s,
                                  total |-> Undef, reason |-> reason],
                        !.promptTimers = @ \cup {nowMs + PROMPT_MS}])

\* logSentiment, lines 573-578.
logSentiment(args, st, nowMs) ==
    IF ReadThrows(args) THEN Outcome(TRUE, "Success", st)
    ELSE Outcome(FALSE, "Sentiment Logged",
            [st EXCEPT
                !.currentSentiment = [shown |-> TRUE, type |-> Get(args, "sentiment"),
                                      summary |-> Get(args, "summary")],
                !.sentimentTimers = @ \cup {nowMs + SENTIMENT_MS}])

\* The try block of the map callback, lines 484-583.
TryCall(fc, st, ordersRef, nowMs) ==
    CASE fc.name = "logOrder" -> logOrder(fc.args, st, ordersRef, nowMs)
      [] fc.name = "saveInsight" -> saveInsight(fc.args, st, nowMs)
      [] fc.name = "suggestCashierPrompt" ->
            suggestCashierPrompt(fc.args, st, ordersRef, nowMs)
      [] fc.name = "logSentiment" -> logSentiment(fc.args, st, nowMs)
      [] fc.name = "triggerTalkback" -> Outcome(FALSE, "Speaking", st)
      [] OTHER -> Outcome(FALSE, "Success", st)

\* The body of the map callback for one function call, lines 482-593: the
\* try block and the catch, which turns a throw into the Error result.
Caught(out) == [out EXCEPT !.status = IF out.threw THEN "Error" ELSE @]
ExecuteCall(fc, st, ordersRef, nowMs) == Caught(TryCall(fc, st, ordersRef, nowMs))

\* What map returns for fc, whose callback ended as out, before the results
\* of the later calls.
Mapped(fc, out, rest) ==
    [functionResponses |->
        <<[id |-> fc.id, name |-> fc.name, status |-> out.status]>>
            \o rest.functionResponses,
     threw |-> <<out.threw>> \o rest.threw,
     st |-> rest.st]
Aborted(out) == [functionResponses |-> <<>>, threw |-> <<TRUE>>, st |-> out.st]

\* A map whose callback has no catch of its own: the first throw ends it.
RECURSIVE HandleToolCallAborting(_, _, _, _)
AbortingAfter(functionCalls, out, ordersRef, nowMs) ==
    IF out.threw THEN Aborted(out)
    ELSE Mapped(Head(functionCalls), out,
                HandleToolCallAborting(Tail(functionCalls), out.st, ordersRef, nowMs))
HandleToolCallAborting(functionCalls, st, ordersRef, nowMs) ==
    IF functionCalls = <<>> THEN [functionResponses |-> <<>>, threw |-> <<>>, st |-> st]
    ELSE AbortingAfter(functionCalls,
                       ExecuteCall(Head(functionCalls), st, ordersRef, nowMs),
                       ordersRef, nowMs)

\* functionCalls.map(...), lines 481-594: the responses in call order, which
\* calls threw, and the state after the last call.
RECURSIVE HandleToolCall(_, _, _, _)
MapAfter(functionCalls, out, ordersRef, nowMs) ==
    Mapped(Head(functionCalls), out,
           HandleToolCall(Tail(functionCalls), out.st, ordersRef, nowMs))
HandleToolCall(functionCalls, st, ordersRef, nowMs) ==
    IF functionCalls = <<>> THEN [functionResponses |-> <<>>, threw |-> <<>>, st |-> st]
    ELSE MapAfter(functionCalls, ExecuteCall(Head(functionCalls), st, ordersRef, nowMs),
                  ordersRef, nowMs)

\* ------------------------------------------------------- inbound messages
\* The function calls the model's messages are made of.
Item(name, quantity) == Obj([name |-> Str(name), quantity |-> quantity])
ToolCalls == <<
    [name |-> "triggerTalkback", args |-> Obj(<<>>)],
    [name |-> "logOrder",
     args |-> Obj([items |-> Arr(<<Item("pyaaz kachori", Num(2))>>)])],
    [name |-> "logOrder", args |-> Arr(<<Str("samosa"), Item("xyz123", Str("3"))>>)],
    [name |-> "logOrder", args |-> Undef],
    [name |-> "logOrder", args |-> Obj([items |-> Arr(<<Item("jalebi", Num(1)), Null>>)])],
    [name |-> "saveInsight",
     args |-> Obj([category |-> Str("shopping_list"), content |-> Str("sugar")])],
    [name |-> "suggestCashierPrompt",
     args |-> Obj([promptText |-> Str("Tell the TOTAL"), reason |-> Str("asked")])],
    [name |-> "suggestCashierPrompt", args |-> Obj([promptText |-> Str("Offer lassi")])],
    [name |-> "logSentiment",
     args |-> Obj([sentiment |-> Str("positive"), summary |-> Str("happy")])]
>>

\* msg.toolCall.functionCalls for a message given by the indices of its
\* calls: the id of a call is its position in the message.
FunctionCalls(calls) ==
    [k \in 1..Len(calls) |->
        [id |-> k, name |-> ToolCalls[calls[k]].name, args |-> ToolCalls[calls[k]].args]]

\* The messages a session of the lifecycle model receives: calls without
\* effect on the store.
SessionMessages == {<<1, 1>>}
\* The messages of the tool-call model: every sequence of up to MaxBatch calls.
ToolMessages == UNION {[1..n -> 1..Len(ToolCalls)] : n \in 1..MaxBatch}

NoMessage == [conn |-> NoRef, calls |-> <<>>, threw |-> <<>>, before |-> <<>>]

\* The tool state as the record the handlers work on.
ToolState ==
    [nextId |-> nextId, recentOrders |-> recentOrders,
     recentInsights |-> recentInsights, history |-> sessionHistory,
     cashierPrompt |-> cashierPrompt, currentSentiment |-> currentSentiment,
     promptTimers |-> promptTimers, sentimentTimers |-> sentimentTimers]

SetToolState(st) ==
    /\ nextId' = st.nextId
    /\ recentOrders' = st.recentOrders
    /\ recentInsights' = st.recentInsights
    /\ sessionHistory' = st.history
    /\ cashierPrompt' = st.cashierPrompt
    /\ currentSentiment' = st.currentSentiment
    /\ promptTimers' = st.promptTimers
    /\ sentimentTimers' = st.sentimentTimers

\* callbacks.onmessage for a message with a toolCall and no audio, lines
\* 479-600, on the connection of attempt a.  A socket on which close() was
\* called still delivers the messages that arrive before it is closed.
Handled(a, calls, handled) ==
    /\ SetToolState(handled.st)
    /\ lastMessage' = [conn |-> a, calls |-> calls, threw |-> handled.threw,
                       before |-> ToolState]
    /\ wire' = IF Len(handled.functionResponses) > 0 /\ currentSessionRef /= NoRef
               THEN <<[kind |-> "toolResponse", on |-> currentSessionRef,
                       functionResponses |-> handled.functionResponses]>>
               ELSE <<>>
OnMessage(a, calls) ==
    /\ attempts[a].conn \in {"open", "closing"}
    /\ Handled(a, calls,
               HandleToolCall(FunctionCalls(calls), ToolState, recentOrdersRef, now))
    /\ UNCHANGED <<sessionVars, camVars, now, recentOrdersRef, unitVars>>

\* A message on a connection of the lifecycle model.
Message(a, calls) == OnMessage(a, calls) /\ UNCHANGED received

\* One of the MaxMessages messages of the tool-call model.
ToolCallMessage(calls) ==
    /\ received < MaxMessages
    /\ received' = received + 1
    /\ OnMessage(1, calls)

\* processor.onaudioprocess, lines 463-473, of the processor attempt a made.
OnAudioProcess(a) ==
    /\ ProcessorRuns(attempts[a])
    /\ wire' = IF isActiveRef /\ currentSessionRef /= NoRef
               THEN <<[kind |-> "realtimeInput", on |-> currentSessionRef,
                       functionResponses |-> <<>>]>>
               ELSE <<>>
    /\ lastMessage' = NoMessage
    /\ UNCHANGED <<sessionVars, camVars, toolVars, now, recentOrdersRef, received,
                   unitVars>>

\* The effect of lines 238-243, run by the render that follows a change of
\* the recentOrders prop.
SyncRecentOrdersRef ==
    /\ phase = "mounted"
    /\ recentOrdersRef /= recentOrders
    /\ recentOrdersRef' = recentOrders
    /\ Quiet
    /\ UNCHANGED <<sessionVars, camVars, toolVars, now, received, unitVars>>

\* Time passes: no timer is skipped.
Tick ==
    /\ now + TICK_MS <= MaxTime
    /\ \A t \in promptTimers \cup sentimentTimers : now + TICK_MS <= t
    /\ now' = now + TICK_MS
    /\ Quiet
    /\ UNCHANGED <<sessionVars, camVars, toolVars, recentOrdersRef, received, unitVars>>

\* The timer of line 570 fires.
PromptExpires(t) ==
    /\ t \in promptTimers /\ now >= t
    /\ cashierPrompt' = NoPrompt
    /\ promptTimers' = promptTimers \ {t}
    /\ Quiet
    /\ UNCHANGED <<sessionVars, camVars, now, recentOrdersRef, received, unitVars, nextId, recentOrders,
                   recentInsights, sessionHistory, currentSentiment, sentimentTimers>>

\* The timer of line 576 fires.
SentimentExpires(t) ==
    /\ t \in sentimentTimers /\ now >= t
    /\ currentSentiment' = NoSentiment
    /\ sentimentTimers' = sentimentTimers \ {t}
    /\ Quiet
    /\ UNCHANGED <<sessionVars, camVars, now, recentOrdersRef, received, unitVars, nextId, recentOrders,
                   recentInsights, sessionHistory, cashierPrompt, promptTimers>>

\* ------------------------------------------------------------ initial state
ToolsInit ==
    /\ now = 0
    /\ nextId = 1
    /\ recentOrders = <<>>
    /\ recentInsights = <<>>
    /\ recentOrdersRef = <<>>
    /\ sessionHistory = [orders |-> <<>>, insights |-> <<>>]
    /\ cashierPrompt = NoPrompt
    /\ currentSentiment = NoSentiment
    /\ promptTimers = {}
    /\ sentimentTimers = {}
    /\ received = 0
    /\ lastMessage = NoMessage
    /\ wire = <<>>

\* No call of a single function is under examination.
UnitInit ==
    /\ lookupQuery = "" /\ lookupResult = <<>>
    /\ csvField = Str("") /\ csvText = <<>>
    /\ logs = <<>> /\ csvFile = <<>> /\ currentTime = 0
    /\ analysis = NoAnalysis
    /\ audio = NoAudio

Init == SessionInit /\ CameraInit /\ ToolsInit /\ UnitInit

Next ==
    \/ Mount
    \/ Unmount
    \/ SyncIsActiveRef
    \/ handleResumeAudio
    \/ \E t \in Timers : TimerFire(t)
    \/ \E a \in Attempts : MicGranted(a)
    \/ \E a \in Attempts : MicRefused(a)
    \/ \E a \in Attempts : ConnectResolved(a)
    \/ \E a \in Attempts : ConnectRejected(a)
    \/ \E a \in Attempts : OnOpen(a)
    \/ \E a \in Attempts : OnError(a)
    \/ \E a \in Attempts : OnClose(a)
    \/ \E a \in Attempts : OnAudioProcess(a)
    \/ \E a \in Attempts, calls \in SessionMessages : Message(a, calls)

Spec == Init /\ [][Next]_vars

\* ------------------------------------------------- the tool-call model
\* A session that is established and stays so: the state Mount, MicGranted,
\* OnOpen, ConnectResolved and SyncIsActiveRef lead to.
Established ==
    /\ phase = "mounted"
    /\ apiKey = "key"
    /\ isActive = TRUE
    /\ isActiveRef = TRUE
    /\ statusText = "SURVEILLANCE ACTIVE"
    /\ error = ""
    /\ currentSessionRef = 1
    /\ inputContextRef = 1 /\ outputContextRef = 1
    /\ processorRef = 1 /\ sourceRef = 1
    /\ reconnectTimeoutRef = NoRef
    /\ timers = [t \in Timers |-> FreeTimer]
    /\ attempts = [a \in Attempts |->
                      IF a = 1
                      THEN [pc |-> "done", mic |-> "live", inCtx |-> "open",
                            outCtx |-> "open", conn |-> "open", opened |-> TRUE,
                            proc |-> "connected"]
                      ELSE FreeAttempt]
    /\ leaks = {}

InitTools == Established /\ CameraInit /\ ToolsInit /\ UnitInit

NextTools ==
    \/ \E calls \in ToolMessages : ToolCallMessage(calls)
    \/ SyncRecentOrdersRef
    \/ Tick
    \/ \E t \in promptTimers : PromptExpires(t)
    \/ \E t \in sentimentTimers : SentimentExpires(t)

SpecTools == InitTools /\ [][NextTools]_vars

\* --------------------------------------------------- the logOrder model
\* The raw items a logOrder payload is made of: a bare string, items with
\* name and quantity, with a numeric string as quantity, without a name, with
\* the placeholder name, with the alternative keys item and qty, without a
\* quantity, with notes, with a quantity that is no number, and null.
RawItemPalette == <<
    Str("samosa"),
    Str(""),
    Item("pyaaz kachori", Num(2)),
    Item("xyz123", Str("3")),
    Obj([quantity |-> Num(2)]),
    Item("Unknown Item", Num(1)),
    Obj([item |-> Str("Mirchi Bada"), qty |-> Num(4)]),
    Obj([name |-> Str("jalebi")]),
    Obj([name |-> Str("LASSI"), quantity |-> Num(3), notes |-> Str("sweet")]),
    Item("xyz123", Str("two")),
    Null
>>
ItemPicks == UNION {[1..n -> 1..Len(RawItemPalette)] : n \in 0..MaxItems}
PickedItems(picks) == [k \in 1..Len(picks) |-> RawItemPalette[picks[k]]]

\* fc.args in the three shapes of lines 487-489: the array of items, the
\* object wrapping it, the single item.
Shapes == {"array", "wrapped", "bare"}
Payload(shape, picks) ==
    CASE shape = "array" -> Arr(PickedItems(picks))
      [] shape = "wrapped" -> Obj([items |-> Arr(PickedItems(picks))])
      [] shape = "bare" -> RawItemPalette[picks[1]]
LogOrderCall(args) == <<[id |-> 1, name |-> "logOrder", args |-> args]>>

\* A message with one logOrder call on the established session; lastMessage
\* keeps the payload of the call.
LogOrderMessage(shape, picks) ==
    /\ shape = "bare" => Len(picks) = 1
    /\ received < MaxMessages
    /\ received' = received + 1
    /\ attempts[1].conn \in {"open", "closing"}
    /\ Handled(1, <<Payload(shape, picks)>>,
               HandleToolCall(LogOrderCall(Payload(shape, picks)), ToolState,
                              recentOrdersRef, now))
    /\ UNCHANGED <<sessionVars, camVars, now, recentOrdersRef, unitVars>>

NextOrders ==
    \/ \E shape \in Shapes, picks \in ItemPicks : LogOrderMessage(shape, picks)
    \/ SyncRecentOrdersRef

SpecOrders == InitTools /\ [][NextOrders]_vars

\* ------------------------------------------------ the saveInsight model
\* The arguments the declaration of saveInsight (lines 43-66) allows: a
\* category of its enum, a content, and a severity of its enum or none.
Categories == {"inventory", "customer", "general", "shopping_list", "security_risk"}
Contents == {"sugar", "stranger near the till"}
Severities == {Undef, Str("low"), Str("medium"), Str("high")}
InsightArgs(category, content, severity) ==
    IF severity = Undef
    THEN Obj([category |-> Str(category), content |-> Str(content)])
    ELSE Obj([category |-> Str(category), content |-> Str(content),
              severity |-> severity])
SaveInsightCall(args) == <<[id |-> 1, name |-> "saveInsight", args |-> args]>>

\* A message with one saveInsight call on the established session;
\* lastMessage keeps the arguments of the call.
InsightMessage(category, content, severity) ==
    /\ received < MaxMessages
    /\ received' = received + 1
    /\ attempts[1].conn \in {"open", "closing"}
    /\ Handled(1, <<InsightArgs(category, content, severity)>>,
               HandleToolCall(SaveInsightCall(InsightArgs(category, content, severity)),
                              ToolState, recentOrdersRef, now))
    /\ UNCHANGED <<sessionVars, camVars, now, recentOrdersRef, unitVars>>

NextInsights ==
    \E category \in Categories, content \in Contents, severity \in Severities :
        InsightMessage(category, content, severity)

SpecInsights == InitTools /\ [][NextInsights]_vars

\* ------------------------------------------- amounts shown for an item
\* menuItem ? menuItem.price : 0, lines 289 and 786.
priceOf(m) == IF m /= 0 THEN SHOP_MENU[m].price ELSE 0
\* The Total field of an ORDER row of the session report, lines 288-296.
reportTotal(item) == Mul(Num(priceOf(findMenuItem(item.name))), item.quantity)
\* itemTotal of an order card of the dashboard, lines 785-787.
itemTotal(item) == Mul(Num(priceOf(findMenuItem(item.name))), item.quantity)

\* ---------------------------------------------------- the matcher model
\* The queries findMenuItem is called with: every canonical name in five
\* letter casings, every variation as declared, and queries that are
\* neither: in other casings, padded, parts of names, several names in one,
\* unrelated to the catalog, blank.
UpperChar(c) ==
    IF \E i \in 1..Len(Lower) : SubSeq(Lower, i, i) = c
    THEN LET i == CHOOSE i \in 1..Len(Lower) : SubSeq(Lower, i, i) = c
         IN SubSeq(Upper, i, i)
    ELSE c
Casings == {"declared", "lower", "upper", "odd", "even"}
CharCased(c, casing, pos) ==
    CASE casing = "declared" -> c
      [] casing = "lower" -> LowerChar(c)
      [] casing = "upper" -> UpperChar(c)
      [] casing = "odd" -> IF pos % 2 = 1 THEN UpperChar(c) ELSE LowerChar(c)
      [] casing = "even" -> IF pos % 2 = 0 THEN UpperChar(c) ELSE LowerChar(c)
RECURSIVE Recased(_, _)
Recased(s, casing) ==
    IF s = "" THEN ""
    ELSE Recased(SubSeq(s, 1, Len(s) - 1), casing)
             \o CharCased(SubSeq(s, Len(s), Len(s)), casing, Len(s))
MENU_CASED ==
    [i \in 1..Len(SHOP_MENU) |-> [c \in Casings |-> Recased(SHOP_MENU[i].name, c)]]
NameQueries == {MENU_CASED[i][c] : i \in 1..Len(SHOP_MENU), c \in Casings}
VariationQueries ==
    UNION {{SHOP_MENU[i].variations[k] : k \in 1..Len(SHOP_MENU[i].variations)} :
              i \in 1..Len(SHOP_MENU)}
OtherQueries ==
    {"xyz123", "chai", "pizza 2", "MIRCHI BADA", " Pyaaz Kachori ", "  SAMOSA ",
     "kachori samosa", "ek plate samosa", "sam", "plate", "1 kg", "a", "", "  "}
Queries == NameQueries \cup VariationQueries \cup OtherQueries

InitMatcher ==
    /\ Established /\ CameraInit /\ ToolsInit
    /\ lookupQuery \in Queries
    /\ lookupResult = <<>>
    /\ csvField = Str("") /\ csvText = <<>>
    /\ logs = <<>> /\ csvFile = <<>> /\ currentTime = 0
    /\ analysis = NoAnalysis
    /\ audio = NoAudio

\* One call findMenuItem(lookupQuery).
Lookup ==
    /\ lookupResult = <<>>
    /\ lookupResult' = <<findMenuItem(lookupQuery)>>
    /\ UNCHANGED <<sessionVars, camVars, toolVars, now, recentOrdersRef, received,
                   lastMessage, wire, lookupQuery, csvField, csvText, logs, csvFile,
                   currentTime, analysis, audio>>

NextMatcher == Lookup

SpecMatcher == InitMatcher /\ [][NextMatcher]_vars

\* ============================================================= CSV export
\* sanitizeForCsv, lines 310-322.  The test of line 313 is the regular
\* expression /^[=+\-@]/, the replacement of line 318 is global.
FormulaChars == {"=", "+", "-", "@"}
startsFormula(str) == str /= "" /\ SubSeq(str, 1, 1) \in FormulaChars
quotesKept(str) == str
RECURSIVE replaceQuotes(_)
replaceQuotes(str) ==
    IF str = "" THEN ""
    ELSE (IF SubSeq(str, 1, 1) = "\"" THEN "\"\"" ELSE SubSeq(str, 1, 1))
             \o replaceQuotes(SubSeq(str, 2, Len(str)))
neutralized(str) == IF startsFormula(str) THEN "'" \o str ELSE str
sanitizeForCsv(field) == "\"" \o replaceQuotes(neutralized(StringOf(field))) \o "\""

\* ------------------------------------------------- the sanitizer model
\* The values the sanitizer is called with: every text of up to MaxLen
\* characters over an alphabet with the four formula characters, the two
\* quotes, the comma and a letter, and the values that are no strings.
Alphabet == {"=", "+", "-", "@", "\"", "'", ",", "a"}
RECURSIVE Texts(_)
Texts(n) ==
    IF n = 0 THEN {""}
    ELSE Texts(n - 1) \cup {s \o c : s \in Texts(n - 1), c \in Alphabet}
FieldTexts == Texts(MaxLen)
CellNumbers == {-12, 0, 7, 450}
InitSanitizer ==
    /\ Established /\ CameraInit /\ ToolsInit
    /\ lookupQuery = "" /\ lookupResult = <<>>
    /\ \/ \E s \in FieldTexts : csvField = Str(s)
       \/ \E n \in CellNumbers : csvField = Num(n)
       \/ csvField = NaN
       \/ csvField = Undef
    /\ csvText = <<>>
    /\ logs = <<>> /\ csvFile = <<>> /\ currentTime = 0
    /\ analysis = NoAnalysis
    /\ audio = NoAudio

\* One call sanitizeForCsv(csvField).
Sanitize ==
    /\ csvText = <<>>
    /\ csvText' = <<sanitizeForCsv(csvField)>>
    /\ UNCHANGED <<sessionVars, camVars, toolVars, now, recentOrdersRef, received,
                   lastMessage, wire, lookupQuery, lookupResult, csvField, logs, csvFile,
                   currentTime, analysis, audio>>

NextSanitizer == Sanitize

SpecSanitizer == InitSanitizer /\ [][NextSanitizer]_vars

\* ------------------------------------------------------ the two exports
\* Date.prototype.toLocaleTimeString and toLocaleDateString of a time given
\* in ms, as hh:mm:ss and month/day/year; the text depends on the locale of
\* the browser, this is the form of a 24-hour locale, for times of January
\* 1970.
Pad2(n) == IF n < 10 THEN "0" \o FormatDigits(n) ELSE FormatDigits(n)
toLocaleTimeString(ms) ==
    Pad2((ms \div 3600000) % 24) \o ":" \o Pad2((ms \div 60000) % 60)
        \o ":" \o Pad2((ms \div 1000) % 60)
toLocaleDateString(ms) == "1/" \o FormatDigits((ms \div 86400000) + 1) \o "/1970"

\* The rows of generateSessionReport, lines 286-307.
orderRow(o, item) ==
    <<Str(toLocaleTimeString(o.timestamp)), Str("ORDER"), item.quantity, Str(item.name),
      Or(item.notes, Str("")), reportTotal(item)>>
orderRows(o) == [k \in 1..Len(o.items) |-> orderRow(o, o.items[k])]
insightRow(i) ==
    <<Str(toLocaleTimeString(i.timestamp)), Str("INSIGHT"), Str(""), i.content,
      Str(StringOf(i.category) \o " (" \o StringOf(Or(i.severity, Str("low"))) \o ")"),
      Str("")>>
RECURSIVE flatMap(_)
flatMap(orders) ==
    IF orders = <<>> THEN <<>> ELSE orderRows(Head(orders)) \o flatMap(Tail(orders))
reportRows(history) ==
    flatMap(history.orders) \o [k \in 1..Len(history.insights) |-> insightRow(history.insights[k])]
\* rows.map(r => r.map(c => sanitizeForCsv(c))), line 326.
sanitizedRow(r) == [c \in 1..Len(r) |-> sanitizeForCsv(r[c])]

\* generateSessionReport, lines 280-336: the rows it writes after the header.
generateSessionReport ==
    /\ ~(sessionHistory.orders = <<>> /\ sessionHistory.insights = <<>>)
    /\ csvFile' = [k \in 1..Len(reportRows(sessionHistory)) |->
                      sanitizedRow(reportRows(sessionHistory)[k])]
    /\ Quiet
    /\ UNCHANGED <<sessionVars, camVars, toolVars, now, recentOrdersRef, received,
                   lookupQuery, lookupResult, csvField, csvText, logs, currentTime,
                   analysis, audio>>

\* A row of downloadCSV of LogHistory, part_000 lines 17-25: each field is
\* put between double quotes by the template `"${e}"`.
inQuotes(e) == "\"" \o StringOf(e) \o "\""
logRow(log) ==
    <<inQuotes(Str(toLocaleDateString(log.timestamp))),
      inQuotes(Str(toLocaleTimeString(log.timestamp))),
      inQuotes(log.count),
      inQuotes(Or(log.notes, Str("")))>>

\* downloadCSV, part_000 lines 14-34: the rows it writes after the header.
downloadCSV ==
    /\ Len(logs) /= 0
    /\ csvFile' = [k \in 1..Len(logs) |-> logRow(logs[k])]
    /\ Quiet
    /\ UNCHANGED <<sessionVars, camVars, toolVars, now, recentOrdersRef, received,
                   lookupQuery, lookupResult, csvField, csvText, logs, currentTime,
                   analysis, audio>>

\* -------------------------------------------------- the export model
\* The count log: entries with the count the image analysis returned and
\* the notes attached to it.
LogCounts == {Num(12), Num(-3)}
LogNotes == {Undef, Str("fresh batch"), Str("=2+5"), Str("said \"hot\"")}
LogTimes == {0, 5000}
LogEntries == [timestamp : LogTimes, count : LogCounts, notes : LogNotes]
LogLists == UNION {[1..n -> LogEntries] : n \in 0..MaxLogs}

\* The calls that fill the session history before the report is written.
ExportCalls == <<
    [id |-> 1, name |-> "logOrder",
     args |-> Arr(<<Obj([name |-> Str("samosa"), quantity |-> Num(-2),
                        notes |-> Str("=2+5")])>>)],
    [id |-> 1, name |-> "logOrder", args |-> Arr(<<Item("+1 \"big\" chai", Num(1))>>)],
    [id |-> 1, name |-> "saveInsight",
     args |-> Obj([category |-> Str("shopping_list"), content |-> Str("@sugar"),
                   severity |-> Str("high")])],
    [id |-> 1, name |-> "saveInsight",
     args |-> Obj([category |-> Str("customer_feedback"), content |-> Str("too \"hot\"")])]
>>

\* A message with the call ExportCalls[k] on the established session.
ExportMessage(k) ==
    /\ received < MaxMessages
    /\ received' = received + 1
    /\ attempts[1].conn \in {"open", "closing"}
    /\ Handled(1, <<k>>,
               HandleToolCall(<<ExportCalls[k]>>, ToolState, recentOrdersRef, now))
    /\ UNCHANGED <<sessionVars, camVars, now, recentOrdersRef, unitVars>>

InitExport ==
    /\ Established /\ CameraInit /\ ToolsInit
    /\ lookupQuery = "" /\ lookupResult = <<>>
    /\ csvField = Str("") /\ csvText = <<>>
    /\ logs \in LogLists
    /\ csvFile = <<>>
    /\ currentTime = 0
    /\ analysis = NoAnalysis
    /\ audio = NoAudio

NextExport ==
    \/ \E k \in 1..Len(ExportCalls) : ExportMessage(k)
    \/ generateSessionReport
    \/ downloadCSV

SpecExport == InitExport /\ [][NextExport]_vars

\* ============================================================ order display
SECOND_MS == 1000
VISIBLE_S == 45
VISIBLE_LONG_S == 90
LARGE_ITEMS == 3

\* order.items.map(i => i.name).join(' '), line 709.
RECURSIVE itemsStr(_)
itemsStr(items) ==
    IF items = <<>> THEN ""
    ELSE IF Len(items) = 1 THEN items[1].name
    ELSE items[1].name \o " " \o itemsStr(Tail(items))
hasJalebi(str) ==
    includes(toLowerCase(str), "jalebi") \/ includes(toLowerCase(str), "imarti")
isLarge(order) == Len(order.items) > LARGE_ITEMS
timeout(order) ==
    IF hasJalebi(itemsStr(order.items)) \/ isLarge(order) THEN VISIBLE_LONG_S ELSE VISIBLE_S
\* ageSeconds < timeout with ageSeconds = (time - orderTime) / 1000, a
\* division of floating point numbers: the test in ms.
isVisible(order, time) == time - order.timestamp < timeout(order) * SECOND_MS

\* getVisibleOrders, lines 705-715: the positions of the orders it keeps.
getVisibleOrders == {k \in 1..Len(recentOrders) : isVisible(recentOrders[k], currentTime)}

\* The callback of the interval of lines 696-701, every TICK_MS after the
\* mount at time 0.
RefreshTick ==
    /\ now = currentTime + TICK_MS
    /\ currentTime' = now
    /\ Quiet
    /\ UNCHANGED <<sessionVars, camVars, toolVars, now, recentOrdersRef, received,
                   lookupQuery, lookupResult, csvField, csvText, logs, csvFile,
                   analysis, audio>>

\* A second passes: the refresh is not skipped.
SecondPasses ==
    /\ now + SECOND_MS <= MaxClock
    /\ now + SECOND_MS <= currentTime + TICK_MS
    /\ now' = now + SECOND_MS
    /\ Quiet
    /\ UNCHANGED <<sessionVars, camVars, toolVars, recentOrdersRef, received, unitVars>>

\* The orders shown: a plain one, one with jalebi, one with four items.
DisplayCalls == <<
    [id |-> 1, name |-> "logOrder", args |-> Arr(<<Item("samosa", Num(2))>>)],
    [id |-> 1, name |-> "logOrder", args |-> Arr(<<Item("jalebi", Num(1))>>)],
    [id |-> 1, name |-> "logOrder",
     args |-> Arr(<<Str("samosa"), Str("kachori"), Str("lassi"), Str("xyz123")>>)]
>>

\* A message with the call DisplayCalls[k], at any second of the first
\* refresh period.
DisplayMessage(k) ==
    /\ received < MaxMessages
    /\ now < TICK_MS
    /\ received' = received + 1
    /\ attempts[1].conn \in {"open", "closing"}
    /\ Handled(1, <<k>>,
               HandleToolCall(<<DisplayCalls[k]>>, ToolState, recentOrdersRef, now))
    /\ UNCHANGED <<sessionVars, camVars, now, recentOrdersRef, unitVars>>

NextDisplay ==
    \/ \E k \in 1..Len(DisplayCalls) : DisplayMessage(k)
    \/ SecondPasses
    \/ RefreshTick

SpecDisplay == InitTools /\ [][NextDisplay]_vars

\* ============================================================ WebcamCapture
\* A start that requests the device and leaves the error as it is.
startCameraKeepsError ==
    /\ camRequest' = "pending"
    /\ UNCHANGED <<camError, camStream, srcObject, streamActive, isProcessing,
                   captured>>

\* startCamera up to its await, lines 105-116.
startCamera ==
    /\ camError' = ""
    /\ camRequest' = "pending"
    /\ UNCHANGED <<camStream, srcObject, streamActive, isProcessing,
                   captured>>

\* The mount effect, lines 129-130.
CamMount ==
    /\ CameraOnly
    /\ camPhase = "init"
    /\ camPhase' = "mounted"
    /\ startCamera

\* The Retry Connection button, lines 170-176, rendered while error is set.
CamRetry ==
    /\ CameraOnly
    /\ camPhase = "mounted"
    /\ camError /= ""
    /\ camRequest = "none"
    /\ startCamera
    /\ UNCHANGED camPhase

\* getUserMedia resolves, lines 118-121.  videoRef.current is the element
\* while the component is mounted and null afterwards.
CamGranted ==
    /\ CameraOnly
    /\ camRequest = "pending"
    /\ camRequest' = "none"
    /\ camStream' = "live"
    /\ IF camPhase = "mounted"
       THEN /\ srcObject' = TRUE
            /\ streamActive' = TRUE
       ELSE UNCHANGED <<srcObject, streamActive>>
    /\ UNCHANGED <<camPhase, camError, isProcessing, captured>>

\* getUserMedia rejects, lines 122-126.
CamRefused ==
    /\ CameraOnly
    /\ camRequest = "pending"
    /\ camRequest' = "none"
    /\ camError' = "CAMERA ACCESS DENIED or BUSY"
    /\ streamActive' = FALSE
    /\ UNCHANGED <<camPhase, camStream, srcObject, isProcessing, captured>>

\* Lines 133-136: the tracks of the stream in srcObject are stopped if the
\* element is still in videoRef.current.
StopTracks(stream, attached, cleared) ==
    IF attached /\ ~cleared THEN "stopped" ELSE stream

\* The cleanup of the mount effect, lines 131-137.  Whether React has already
\* set videoRef.current to null when the cleanup of a passive effect runs
\* depends on the React version of the build.
CamUnmount ==
    /\ CameraOnly
    /\ camPhase = "mounted"
    /\ camPhase' = "unmounted"
    /\ \E refCleared \in BOOLEAN :
          camStream' = StopTracks(camStream, srcObject, refCleared)
    /\ UNCHANGED <<camRequest, srcObject, streamActive, camError,
                   isProcessing, captured>>

\* capture, lines 140-153, from the capture button of lines 211-213, which is
\* disabled unless streamActive and not isProcessing.
capture ==
    /\ CameraOnly
    /\ camPhase = "mounted"
    /\ streamActive /\ ~isProcessing
    /\ captured < MaxCaptures
    /\ captured' = captured + 1
    /\ UNCHANGED <<camPhase, camRequest, camStream, srcObject,
                   streamActive, camError, isProcessing>>

\* The parent changes the isProcessing prop.
SetProcessing ==
    /\ CameraOnly
    /\ camPhase = "mounted"
    /\ isProcessing' = ~isProcessing
    /\ UNCHANGED <<camPhase, camRequest, camStream, srcObject,
                   streamActive, camError, captured>>

CameraNext ==
    \/ CamMount
    \/ CamRetry
    \/ CamGranted
    \/ CamRefused
    \/ CamUnmount
    \/ capture
    \/ SetProcessing

SpecCamera == Init /\ [][CameraNext]_vars

\* ========================================================= image analysis
\* services/geminiService.ts, analyzeImageForCount.  The credential is the
\* one the live session is given: apiKey.
\* What the AI service answers to generateContent: a JSON text with a count,
\* no text, a text that is not JSON, or a failure of the server.
Responses == {"count", "empty", "invalid", "500"}

\* A service that takes the key for granted.
keyAssumed(key) == FALSE

\* Line 23: if (!apiKey).
apiKeyMissing(key) == key = ""

\* Lines 89-96: the catch block replaces the message of a server failure and
\* rethrows every other error as it is.
rethrown(msg) ==
    IF msg = "500" THEN "Server busy. Please try scanning again." ELSE msg

\* One call of analyzeImageForCount up to the settlement of its promise,
\* lines 20-98: the key is checked before the client is built and the
\* request issued.
analyzeImageForCount(response) ==
    /\ analysis.requests < MaxCaptures
    /\ analysis' =
          IF apiKeyMissing(apiKey)
          THEN [analysis EXCEPT !.settled = "rejected",
                                !.message = rethrown("API Key is missing.")]
          ELSE [requests |-> analysis.requests + 1,
                settled  |-> IF response = "count" THEN "resolved" ELSE "rejected",
                message  |-> CASE response = "count"   -> ""
                               [] response = "empty"   -> rethrown("No response text from Gemini.")
                               [] response = "invalid" -> rethrown("AI returned invalid JSON format.")
                               [] response = "500"     -> rethrown("500")]
    /\ Quiet
    /\ UNCHANGED <<sessionVars, camVars, toolVars, now, recentOrdersRef, received,
                   lookupQuery, lookupResult, csvField, csvText, logs, csvFile,
                   currentTime, audio>>

\* ------------------------------------------------ the model without a key
\* The assistant, the camera and the service in a deployment whose API key
\* is not set.
InitKey == Init /\ apiKey = ""

\* The callbacks of a connection attempt: each needs an attempt that has
\* passed the key check of startSession.
AttemptStep ==
    \/ \E a \in Attempts : MicGranted(a)
    \/ \E a \in Attempts : MicRefused(a)
    \/ \E a \in Attempts : ConnectResolved(a)
    \/ \E a \in Attempts : ConnectRejected(a)
    \/ \E a \in Attempts : OnOpen(a)
    \/ \E a \in Attempts : OnError(a)
    \/ \E a \in Attempts : OnClose(a)
    \/ \E a \in Attempts : OnAudioProcess(a)
    \/ \E a \in Attempts, calls \in SessionMessages : Message(a, calls)

NextKey ==
    \/ Mount
    \/ Unmount
    \/ handleResumeAudio
    \/ \E t \in Timers : TimerFire(t)
    \/ \E response \in Responses : analyzeImageForCount(response)
    \/ CameraNext

SpecKey == InitKey /\ [][NextKey]_vars

\* ========================================================== inbound audio
\* The audio branch of onmessage, lines 602-621, with the output context, its
\* sources and the speaking indicator.  Times are ticks of the clock of the
\* output context (ctx.currentTime), which runs on the audio thread.  A
\* source of sourcesRef is "scheduled" while it is queued or playing,
\* "ended" once it has played to its end and its ended event waits to be
\* dispatched, and "dead" when its context was closed before that.
Later(a, b) == IF a >= b THEN a ELSE b

Durations == 1..MaxDuration

\* A step of the playback leaves the rest of the program as it is.
AudioOnly ==
    /\ Quiet
    /\ UNCHANGED <<sessionVars, camVars, toolVars, now, recentOrdersRef, received,
                   lookupQuery, lookupResult, csvField, csvText, logs, csvFile,
                   currentTime, analysis>>

\* Lines 602-609: the handler up to await decodeAudioData.
AudioArrives(duration) ==
    /\ AudioOnly
    /\ audio.decoding = <<>>
    /\ audio.conn \in {"open", "closing"}
    /\ audio.chunks < MaxChunks
    /\ audio' =
          IF audio.ctx = "none"
          THEN [audio EXCEPT !.isSpeaking = TRUE, !.chunks = @ + 1]
          ELSE [audio EXCEPT !.isSpeaking = TRUE, !.chunks = @ + 1,
                             !.nextStartTime = Later(@, audio.currentTime),
                             !.decoding = <<[duration |-> duration,
                                             arrived |-> audio.currentTime]>>]

\* source.start(when), lines 610-617: a source whose time has passed starts
\* at once.
Started(id, when, at, decoded) ==
    [id |-> id, when |-> when, arrived |-> decoded.arrived, at |-> at,
     began |-> Later(when, at), end |-> Later(when, at) + decoded.duration]
Source(started) == [id |-> started.id, end |-> started.end, state |-> "scheduled"]

\* Lines 610-619: the handler after await decodeAudioData.
AudioDecoded ==
    /\ AudioOnly
    /\ audio.decoding /= <<>>
    /\ LET source == Started(audio.chunks, audio.nextStartTime, audio.currentTime,
                             audio.decoding[1])
       IN audio' = [audio EXCEPT !.decoding = <<>>,
                                 !.sources = @ \cup {Source(source)},
                                 !.scheduled = Append(@, source),
                                 !.nextStartTime = @ + audio.decoding[1].duration]

\* The clock of the output context advances by a tick; the sources that
\* have played to their end are ended.
Played(source, time) ==
    IF source.state = "scheduled" /\ source.end <= time
    THEN [source EXCEPT !.state = "ended"] ELSE source
ClockTick ==
    /\ AudioOnly
    /\ audio.ctx = "running"
    /\ audio.currentTime < MaxOutClock
    /\ audio' = [audio EXCEPT !.currentTime = @ + 1,
                              !.sources = {Played(s, audio.currentTime + 1) : s \in @}]

\* source.onended, lines 613-616.
SourceEnded(source) ==
    /\ AudioOnly
    /\ audio.decoding = <<>>
    /\ source \in audio.sources
    /\ source.state = "ended"
    /\ audio' = [audio EXCEPT !.sources = @ \ {source},
                              !.isSpeaking = IF audio.sources = {source} THEN FALSE ELSE @]

\* The sources of a context that is closed: whether a source that has not
\* played to its end gets an ended event is up to the browser.
Closed(source, fires) ==
    IF source.state = "scheduled"
    THEN [source EXCEPT !.state = IF fires THEN "ended" ELSE "dead"] ELSE source

\* stopSession, lines 653-694, on the playback: the session is closed, the
\* indicator cleared and the output context closed; nextStartTimeRef and
\* sourcesRef are left as they are.
AudioStopped ==
    /\ AudioOnly
    /\ audio.decoding = <<>>
    /\ audio.ctx = "running"
    /\ \E fires \in BOOLEAN :
          audio' = [audio EXCEPT !.ctx = "none", !.conn = "closing",
                                 !.isSpeaking = FALSE,
                                 !.sources = {Closed(s, fires) : s \in @}]

\* The closed session has delivered its last message.
AudioConnectionClosed ==
    /\ AudioOnly
    /\ audio.decoding = <<>>
    /\ audio.conn = "closing"
    /\ audio' = [audio EXCEPT !.conn = "closed"]

\* The next startSession up to its open connection: stopSession at its
\* entry, a new output context (line 374), whose clock starts at 0.
AudioRestarted ==
    /\ AudioOnly
    /\ audio.decoding = <<>>
    /\ audio.ctx = "none"
    /\ audio' = [audio EXCEPT !.ctx = "running", !.conn = "open", !.currentTime = 0,
                              !.isSpeaking = FALSE, !.scheduled = <<>>]

NextAudio ==
    \/ \E duration \in Durations : AudioArrives(duration)
    \/ AudioDecoded
    \/ ClockTick
    \/ \E source \in audio.sources : SourceEnded(source)
    \/ AudioStopped
    \/ AudioConnectionClosed
    \/ AudioRestarted

SpecAudio == InitTools /\ [][NextAudio]_vars

\* ------------------------------------------------- the transcript model
\* An established session that receives orders and insights while its
\* connection closes, its restarts fail or succeed and the component is
\* unmounted: messages with a logOrder call, a saveInsight call or both, on
\* whichever connection delivers them.
TranscriptCalls == {<<2>>, <<6>>, <<2, 6>>}
TranscriptMessage(a, calls) ==
    /\ received < MaxMessages
    /\ received' = received + 1
    /\ OnMessage(a, calls)

NextTranscript ==
    \/ SyncIsActiveRef
    \/ Unmount
    \/ \E t \in Timers : TimerFire(t)
    \/ \E a \in Attempts : MicGranted(a)
    \/ \E a \in Attempts : MicRefused(a)
    \/ \E a \in Attempts : ConnectResolved(a)
    \/ \E a \in Attempts : ConnectRejected(a)
    \/ \E a \in Attempts : OnOpen(a)
    \/ \E a \in Attempts : OnClose(a)
    \/ \E a \in Attempts, calls \in TranscriptCalls : TranscriptMessage(a, calls)

SpecTranscript == InitTools /\ [][NextTranscript]_vars

\* ================================================================== claims
InProgress(r) == r.pc \in {"awaitMic", "awaitConnect"}
LiveConnections == {a \in Attempts : attempts[a].conn \in {"connecting", "open"}}
Scheduled(tm, tm2) == Cardinality(PendingTimers(tm2)) > Cardinality(PendingTimers(tm))

\* C1: at most one connection that was requested and is not yet closed exists
\* at any time (a connection on which close() was called is not counted).
C1_OneConnection == Cardinality(LiveConnections) <= 1

\* C2: after the unmount no reconnect timer is scheduled, no connection is
\* opened any more and no microphone frame is sent.
C2_StopIsFinal ==
    [][phase = "unmounted" =>
        /\ ~Scheduled(timers, timers')
        /\ \A k \in 1..Len(wire') : wire'[k].kind /= "realtimeInput"
        /\ \A a \in Attempts :
              attempts'[a].conn \in {"connecting", "open"}
                  => attempts'[a].conn = attempts[a].conn]_vars

\* C3: the unmount leaves no reconnect timer pending.
C3_StopCancelsTimers ==
    [][phase = "mounted" /\ phase' = "unmounted" => PendingTimers(timers') = {}]_vars

\* C4: while mounted the manager is never left without a connection, without
\* a connect in progress and without a pending retry while it shows Active
\* (so that a tap does not restart it either).
Stranded ==
    /\ phase = "mounted"
    /\ isActive /\ isActiveRef
    /\ PendingTimers(timers) = {}
    /\ \A a \in Attempts :
          ~InProgress(attempts[a]) /\ attempts[a].conn \in {"none", "closed"}
C4_NeverStranded == ~Stranded

\* C6: a startSession called by a reconnect timer or a tap while the session
\* is Active (isActive set by onopen) changes nothing.
C6_StartWhileActiveNoOp ==
    [][((\E t \in Timers : TimerFire(t)) \/ handleResumeAudio) /\ isActive
        => /\ UNCHANGED <<isActive, statusText, error, attempts, currentSessionRef,
                          inputContextRef, outputContextRef, processorRef, sourceRef>>
           /\ ~Scheduled(timers, timers')]_vars

\* C7: while the manager is Idle no microphone stream it acquired is live.
Idle ==
    /\ ~isActive
    /\ currentSessionRef = NoRef
    /\ \A a \in Attempts : ~InProgress(attempts[a]) /\ attempts[a].conn \in {"none", "closed"}
C7_MicReleasedWhenIdle ==
    Idle => "mic" \notin leaks /\ \A a \in Attempts : attempts[a].mic /= "live"

\* C5: every failed connection attempt leaves the manager Idle (active flag
\* false, no session reference, audio contexts released) with a retry of
\* startSession scheduled 5 s later, and a close while active schedules it
\* 3 s later.
StartFailed ==
    /\ Mount \/ handleResumeAudio \/ \E t \in Timers : TimerFire(t)
    /\ ~isActiveRef
    /\ \A a \in Attempts : ~(attempts[a].pc = "free" /\ attempts'[a].pc = "awaitMic")
AttemptFailed ==
    \/ StartFailed
    \/ \E a \in Attempts : MicRefused(a) \/ ConnectRejected(a) \/ OnError(a)
ClosedWhileActive == isActiveRef /\ \E a \in Attempts : OnClose(a)
RetryIn(delay) ==
    /\ reconnectTimeoutRef' \in Timers
    /\ timers'[reconnectTimeoutRef'] \in
          {[state |-> "pending", delay |-> delay, ripe |-> r] : r \in BOOLEAN}
ContextsReleased ==
    /\ inputContextRef' = NoRef /\ outputContextRef' = NoRef
    /\ \A a \in Attempts : attempts'[a].inCtx /= "open" /\ attempts'[a].outCtx /= "open"
    /\ "ctx" \notin leaks'
C5_FailureSchedulesRetry ==
    [][/\ AttemptFailed =>
            /\ ~isActive' /\ currentSessionRef' = NoRef /\ ContextsReleased
            /\ RetryIn(ERROR_RETRY_MS)
       /\ ClosedWhileActive =>
            /\ ~isActive' /\ currentSessionRef' = NoRef /\ ContextsReleased
            /\ RetryIn(CLOSE_RETRY_MS)]_vars

\* C8: after the unmount, once no getUserMedia call is pending, no camera
\* stream that startCamera acquired is still running.
C8_CameraReleased ==
    camPhase = "unmounted" /\ camRequest = "none"
        => camStream /= "live"

\* C9: every tool-call message with n >= 1 function calls is answered by
\* exactly one tool response, sent on the connection the message came in on,
\* with n results, the k-th carrying the id and name of the k-th call.
Answered(message, sent) ==
    /\ Len(sent) = 1
    /\ sent[1].kind = "toolResponse"
    /\ sent[1].on = message.conn
    /\ Len(sent[1].functionResponses) = Len(message.calls)
    /\ \A k \in 1..Len(message.calls) :
          /\ sent[1].functionResponses[k].id = k
          /\ sent[1].functionResponses[k].name = ToolCalls[message.calls[k]].name
C9_EveryToolCallAnswered ==
    lastMessage.conn /= NoRef /\ Len(lastMessage.calls) >= 1
        => Answered(lastMessage, wire)

\* C10: when a call of a batch throws, its result has the status Error, every
\* other call has the result it has in the batch without the throwing calls,
\* and the orders, insights, transcript, prompt, sentiment and timers are the
\* ones that batch leaves.
NotThrown(results, threw) ==
    SelectSeq([k \in 1..Len(results) |-> [at |-> k, result |-> results[k]]],
              LAMBDA e : ~threw[e.at])
Results(picked) == [k \in 1..Len(picked) |-> picked[k].result]
SameAsWithout(message, sent, others) ==
    /\ Len(sent) = 1
    /\ Len(sent[1].functionResponses) = Len(message.calls)
    /\ \A k \in 1..Len(message.calls) :
          message.threw[k] => sent[1].functionResponses[k].status = "Error"
    /\ Results(NotThrown(sent[1].functionResponses, message.threw))
          = others.functionResponses
    /\ ToolState = others.st
C10_ThrowIsolated ==
    lastMessage.conn /= NoRef /\ (\E k \in 1..Len(lastMessage.calls) : lastMessage.threw[k])
        => SameAsWithout(lastMessage, wire,
              HandleToolCall(
                  Results(NotThrown(FunctionCalls(lastMessage.calls), lastMessage.threw)),
                  lastMessage.before, recentOrdersRef, now))
C10_Witness ==
    /\ lastMessage.conn /= NoRef
    /\ Len(wire) = 1
    /\ \E k, j \in 1..Len(lastMessage.calls) :
          /\ k < j
          /\ lastMessage.threw[k]
          /\ wire[1].functionResponses[j].status = "Order Logged"
    /\ Len(recentOrders) > Len(lastMessage.before.recentOrders)

\* C11: a logOrder that arrives within the merge window of the most recent
\* order (the one recentOrdersRef shows first) adds no order record.
OrderLoggedBy(sent) ==
    /\ Len(sent) = 1
    /\ \E k \in 1..Len(sent[1].functionResponses) :
          sent[1].functionResponses[k].status = "Order Logged"
WithinMergeWindow(orders, nowMs) ==
    /\ orders /= <<>>
    /\ nowMs - orders[1].timestamp < MERGE_WINDOW_MS
C11_MergedWithinWindow ==
    /\ lastMessage.conn /= NoRef
    /\ OrderLoggedBy(wire)
    /\ recentOrdersRef = lastMessage.before.recentOrders
    /\ WithinMergeWindow(recentOrdersRef, now)
    => Len(recentOrders) = Len(lastMessage.before.recentOrders)

\* C12: what logOrder stores in the session history, item by item: the items whose raw name is
\* empty or the placeholder "Unknown Item" are dropped, every other item is
\* stored in order under the canonical name of its match, or under its raw
\* name without a match, with quantity 1 if it came without a quantity; and
\* no order is stored if no item is left.
Survives(i) == Truthy(rawNameOf(i)) /\ rawNameOf(i).s /= "Unknown Item"
Survivors(rawItems) == SelectSeq(rawItems, Survives)
WithoutQuantity(i) ==
    i.t = "string" \/ (Get(i, "quantity") = Undef /\ Get(i, "qty") = Undef)
StoredAs(item, i, m) ==
    /\ item.name = IF m /= 0 THEN SHOP_MENU[m].name ELSE rawNameOf(i).s
    /\ WithoutQuantity(i) => item.quantity = Num(1)
StoredFrom(kept, orders, before) ==
    IF kept = <<>> THEN orders = before
    ELSE /\ Len(orders) = Len(before) + 1
         /\ Len(orders[Len(orders)].items) = Len(kept)
         /\ \A k \in 1..Len(kept) :
               StoredAs(orders[Len(orders)].items[k], kept[k],
                        findMenuItem(rawNameOf(kept[k]).s))
C12_StoredItems ==
    lastMessage.conn /= NoRef /\ ~lastMessage.threw[1]
        => StoredFrom(Survivors(RawItems(lastMessage.calls[1])), sessionHistory.orders,
                      lastMessage.before.history.orders)
C12_Witness ==
    /\ lastMessage.conn /= NoRef
    /\ lastMessage.calls = <<Arr(<<Item("Unknown Item", Num(1)), Obj([name |-> Str("jalebi")])>>)>>
    /\ Len(sessionHistory.orders) = 1
    /\ Len(sessionHistory.orders[1].items) = 1
    /\ sessionHistory.orders[1].items[1].name = "Jalebi 1kg"
    /\ sessionHistory.orders[1].items[1].quantity = Num(1)

\* C13: the total of a stored order is the sum over its items of price x
\* quantity for the catalog item the raw name matched, 0 for an item without
\* match, and the session report and the dashboard show that same amount
\* for each item of every stored order.
ClaimedAmount(m, quantity) ==
    IF m /= 0 THEN Mul(Num(SHOP_MENU[m].price), quantity) ELSE Num(0)
RECURSIVE ClaimedTotal(_, _)
ClaimedTotal(kept, items) ==
    IF kept = <<>> THEN Num(0)
    ELSE Add(ClaimedAmount(findMenuItem(rawNameOf(Head(kept)).s), Head(items).quantity),
             ClaimedTotal(Tail(kept), Tail(items)))
TotalFrom(kept, orders) ==
    kept /= <<>> => orders[Len(orders)].totalAmount
                        = ClaimedTotal(kept, orders[Len(orders)].items)
ShownAsCounted(item) ==
    /\ reportTotal(item) = ClaimedAmount(findMenuItem(item.name), item.quantity)
    /\ itemTotal(item) = ClaimedAmount(findMenuItem(item.name), item.quantity)
C13_TotalAmount ==
    /\ lastMessage.conn /= NoRef /\ ~lastMessage.threw[1]
          => TotalFrom(Survivors(RawItems(lastMessage.calls[1])), sessionHistory.orders)
    /\ \A j \in 1..Len(sessionHistory.orders) :
          \A k \in 1..Len(sessionHistory.orders[j].items) :
              ShownAsCounted(sessionHistory.orders[j].items[k])
\* The part of C13 about the stored total alone.
C13_StoredTotal ==
    lastMessage.conn /= NoRef /\ ~lastMessage.threw[1]
        => TotalFrom(Survivors(RawItems(lastMessage.calls[1])), sessionHistory.orders)

\* C14: findMenuItem called with the canonical name of a catalog item, in
\* any of the letter casings, returns that item.
C14_CanonicalAnyCasing ==
    lookupResult /= <<>>
        => \A i \in 1..Len(SHOP_MENU), c \in Casings :
              lookupQuery = MENU_CASED[i][c] => lookupResult = <<i>>
C14_Witness ==
    /\ lookupQuery = "MiRcHi vAdA"
    /\ lookupResult /= <<>>
    /\ SHOP_MENU[lookupResult[1]].name = "Mirchi Vada"

\* C15: findMenuItem called with a variation declared in the catalog returns
\* the item that declares it.
C15_VariationFindsItsItem ==
    lookupResult /= <<>>
        => \A i \in 1..Len(SHOP_MENU) :
              \A k \in 1..Len(SHOP_MENU[i].variations) :
                  lookupQuery = SHOP_MENU[i].variations[k] => lookupResult = <<i>>
C15_Witness ==
    /\ lookupQuery = "mirchi bada"
    /\ lookupResult /= <<>>
    /\ SHOP_MENU[lookupResult[1]].name = "Mirchi Vada"

\* C16: a query that equals a canonical name or a variation, letter case
\* aside, and is in the substring relation with a different item gets the
\* item with that name or variation, the one with the name if there is one.
Others(matches, i) == matches \ {i}
ExactWins(q, i) ==
    /\ byName(q) \cup byVariation(q) /= {}
    /\ Others(bySubstring(q), i) /= {}
    => /\ i \in byName(q) \cup byVariation(q)
       /\ byName(q) /= {} => i \in byName(q)
C16_ExactBeforeSubstring ==
    lookupResult /= <<>> => ExactWins(trim(toLowerCase(lookupQuery)), lookupResult[1])
EarlierSubstring(q, i) ==
    /\ i \in byName(q) \cup byVariation(q)
    /\ find(bySubstring(q)) \notin {0, i}
C16_Witness ==
    /\ lookupResult /= <<>>
    /\ EarlierSubstring(trim(toLowerCase(lookupQuery)), lookupResult[1])

\* C17: a query that, letter case aside, equals no canonical name and no
\* variation, contains no canonical name and is contained in none, gets no
\* match.
Unrelated(q) ==
    \A i \in 1..Len(MENU_LOWER) :
        /\ MENU_LOWER[i].name /= q
        /\ \A k \in 1..Len(MENU_LOWER[i].variations) : MENU_LOWER[i].variations[k] /= q
        /\ ~includes(MENU_LOWER[i].name, q)
        /\ ~includes(q, MENU_LOWER[i].name)
C17_UnrelatedNoMatch ==
    lookupResult /= <<>> /\ Unrelated(toLowerCase(lookupQuery)) => lookupResult = <<0>>
\* The same for the queries that are not blank.
C17_UnrelatedNotBlank ==
    /\ lookupResult /= <<>>
    /\ Unrelated(toLowerCase(lookupQuery))
    /\ trim(lookupQuery) /= ""
    => lookupResult = <<0>>

\* C18: the sanitizer returns its argument's text between two double
\* quotes, with a single quote put in front if the text begins with =, +, -
\* or @ and with every double quote doubled, and otherwise unchanged.
Inner(text) == SubSeq(text, 2, Len(text) - 1)
Wrapped(text) ==
    /\ Len(text) >= 2
    /\ SubSeq(text, 1, 1) = "\""
    /\ SubSeq(text, Len(text), Len(text)) = "\""
\* The content without the neutralizing prefix, if the value calls for one.
AfterPrefix(content, value) ==
    IF startsFormula(value) THEN SubSeq(content, 2, Len(content)) ELSE content
Prefixed(content, value) ==
    startsFormula(value) => content /= "" /\ SubSeq(content, 1, 1) = "'"
\* Every double quote of the text is followed or preceded by its double.
RECURSIVE QuotesInPairs(_)
QuotesInPairs(text) ==
    IF text = "" THEN TRUE
    ELSE IF SubSeq(text, 1, 1) /= "\"" THEN QuotesInPairs(SubSeq(text, 2, Len(text)))
    ELSE /\ Len(text) >= 2
         /\ SubSeq(text, 2, 2) = "\""
         /\ QuotesInPairs(SubSeq(text, 3, Len(text)))
\* The text with each pair of double quotes read as one.
RECURSIVE Undoubled(_)
Undoubled(text) ==
    IF text = "" THEN ""
    ELSE IF Len(text) >= 2 /\ SubSeq(text, 1, 2) = "\"\""
    THEN "\"" \o Undoubled(SubSeq(text, 3, Len(text)))
    ELSE SubSeq(text, 1, 1) \o Undoubled(SubSeq(text, 2, Len(text)))
SanitizedFrom(text, value) ==
    /\ Wrapped(text)
    /\ Prefixed(Inner(text), value)
    /\ QuotesInPairs(AfterPrefix(Inner(text), value))
    /\ Undoubled(AfterPrefix(Inner(text), value)) = value
C18_SanitizedField ==
    csvText /= <<>> => SanitizedFrom(csvText[1], StringOf(csvField))
C18_Witness ==
    /\ csvField = Str("=\"a")
    /\ csvText = <<"\"'=\"\"a\"">>

\* C19: every field of every data row the two exports write is a sanitized
\* field: between double quotes, its content not beginning with =, +, - or
\* @, and with no double quote that is not doubled.
SafeField(text) ==
    /\ Wrapped(text)
    /\ ~startsFormula(Inner(text))
    /\ QuotesInPairs(Inner(text))
C19_EveryFieldSanitized ==
    \A r \in 1..Len(csvFile) : \A c \in 1..Len(csvFile[r]) : SafeField(csvFile[r][c])

\* The same for the rows of the session report alone, which have six fields.
C19_ReportSanitized ==
    \A r \in 1..Len(csvFile) :
        Len(csvFile[r]) = Len(orderRow([timestamp |-> 0], [quantity |-> Num(1), name |-> "",
                                                          notes |-> Undef]))
            => \A c \in 1..Len(csvFile[r]) : SafeField(csvFile[r][c])

\* C20: once the refresh is up to date, an order is shown exactly if its
\* age by the clock is below its threshold, 45 s, or 90 s for an order with
\* jalebi or imarti or with more than three items.
AgeBelowThreshold(order) == now - order.timestamp < timeout(order) * SECOND_MS
C20_ShownWhileYoung ==
    now < currentTime + TICK_MS
        => \A k \in 1..Len(recentOrders) :
              k \in getVisibleOrders <=> AgeBelowThreshold(recentOrders[k])

\* C21: a batch of two calls leaves the same orders and insights (ids and
\* list positions aside), the same displayed prompt and sentiment, and the
\* same result for each call as the batch with its two calls exchanged.
Exchanged(functionCalls) == <<functionCalls[2], functionCalls[1]>>
WithoutId(list) ==
    {[r \in DOMAIN list[k] \ {"id"} |-> list[k][r]] : k \in 1..Len(list)}
SameStored(a, b) == Len(a) = Len(b) /\ WithoutId(a) = WithoutId(b)
SameResults(a, b) == {a[k] : k \in 1..Len(a)} = {b[k] : k \in 1..Len(b)}
SameObservable(sent, other) ==
    /\ SameStored(recentOrders, other.st.recentOrders)
    /\ SameStored(recentInsights, other.st.recentInsights)
    /\ SameStored(sessionHistory.orders, other.st.history.orders)
    /\ SameStored(sessionHistory.insights, other.st.history.insights)
    /\ cashierPrompt = other.st.cashierPrompt
    /\ currentSentiment = other.st.currentSentiment
    /\ Len(sent) = 1 /\ SameResults(sent[1].functionResponses, other.functionResponses)
C21_BatchOrderIrrelevant ==
    lastMessage.conn /= NoRef /\ Len(lastMessage.calls) = 2
        => SameObservable(wire,
              HandleToolCall(Exchanged(FunctionCalls(lastMessage.calls)),
                             lastMessage.before, recentOrdersRef, now))

\* C22: after the microphone was refused, a step that asks for the
\* microphone again is the user's tap (handleResumeAudio), and after the
\* camera was refused, a step that asks for the camera again is the user's
\* retry (CamRetry).
AsksForMic ==
    \E a \in Attempts : attempts[a].pc /= "awaitMic" /\ attempts'[a].pc = "awaitMic"
AsksForCamera == camRequest /= "pending" /\ camRequest' = "pending"
C22_RetryOnlyByUser ==
    [][/\ error = "Mic Error" /\ AsksForMic => handleResumeAudio
       /\ camError /= "" /\ AsksForCamera => CamRetry]_vars

\* C23: when the API key is absent neither feature starts or contacts the AI
\* service: no attempt of startSession gets to the microphone or to a
\* connection and none of their callbacks can run, the session is not
\* active, the failure of a start is shown as the status, and
\* analyzeImageForCount rejects with the missing-key error without having
\* issued a request.
NeverStarted ==
    /\ \A a \in Attempts : attempts[a].pc = "free"
    /\ currentSessionRef = NoRef
    /\ ~isActive /\ ~isActiveRef
    /\ ~ENABLED AttemptStep
    /\ ~ENABLED SyncIsActiveRef

FailureShown ==
    phase = "mounted" => /\ error \in {"API Key missing", "Network Offline"}
                         /\ statusText = "OFFLINE - RETRYING"

AnalysisRefused ==
    /\ analysis.requests = 0
    /\ analysis.settled \in {"none", "rejected"}
    /\ analysis.settled = "rejected" => analysis.message = "API Key is missing."

C23_NoKeyNoStart ==
    apiKey = "" => NeverStarted /\ FailureShown /\ AnalysisRefused

C23_Witness ==
    /\ apiKey = ""
    /\ phase = "mounted" /\ error = "API Key missing"
    /\ \E t \in Timers : timers[t].state = "pending"
    /\ analysis.settled = "rejected"

\* C24: a saveInsight call creates exactly one insight, with the category
\* and the content given and the severity given, or low when none is given;
\* the insight is emitted once to the store and appended once to the
\* transcript of the session.
GivenInsight(args, insight) ==
    /\ insight.category = args.o.category
    /\ insight.content = args.o.content
    /\ insight.severity = IF "severity" \in DOMAIN args.o THEN args.o.severity
                          ELSE Str("low")
C24_OneInsightAsGiven ==
    lastMessage.conn /= NoRef /\ Len(lastMessage.calls) = 1
      /\ lastMessage.calls[1].t = "object" /\ "category" \in DOMAIN lastMessage.calls[1].o
    => /\ Len(recentInsights) = Len(lastMessage.before.recentInsights) + 1
       /\ Len(sessionHistory.insights) = Len(lastMessage.before.history.insights) + 1
       /\ GivenInsight(lastMessage.calls[1], recentInsights[1])
       /\ recentInsights[1] = sessionHistory.insights[Len(sessionHistory.insights)]
       /\ SubSeq(recentInsights, 2, Len(recentInsights)) = lastMessage.before.recentInsights
       /\ SubSeq(sessionHistory.insights, 1, Len(sessionHistory.insights) - 1)
             = lastMessage.before.history.insights
       /\ sessionHistory.orders = lastMessage.before.history.orders
       /\ wire = <<[kind |-> "toolResponse", on |-> currentSessionRef,
                    functionResponses |->
                        <<[id |-> 1, name |-> "saveInsight",
                           status |-> "Insight Saved"]>>]>>

C24_Witness ==
    /\ lastMessage.conn /= NoRef /\ Len(lastMessage.calls) = 1
    /\ lastMessage.calls[1] = InsightArgs("security_risk", "stranger near the till", Str("high"))
    /\ Len(sessionHistory.insights) = 2
    /\ sessionHistory.insights[1].severity = Str("low")
    /\ sessionHistory.insights[2].severity = Str("high")

\* C25: a microphone frame is sent only while the session is active and a
\* current session exists, and then once, on the current session; a frame
\* produced in any other state is dropped.
FrameSent == wire' /= <<>>
SessionActive == isActive /\ currentSessionRef /= NoRef
C25_FramesOnlyWhileActive ==
    [][\A a \in Attempts :
         OnAudioProcess(a) =>
            /\ FrameSent => SessionActive
            /\ FrameSent => wire' = <<[kind |-> "realtimeInput", on |-> currentSessionRef,
                                       functionResponses |-> <<>>]>>]_vars

\* C26: logOrder stores the same items whether they come as a bare array,
\* as an object wrapping an items array or, for one item, as the bare item;
\* a payload of no such shape (null, a bare string) stores nothing, gets a
\* result of its own and leaves the other calls of the batch to run.
ContentsOf(payload) ==
    IF payload.t = "array" THEN payload.a
    ELSE IF payload.t = "object" /\ "items" \in DOMAIN payload.o
    THEN payload.o.items.a
    ELSE <<payload>>
Shaped(shape, contents) ==
    CASE shape = "array" -> Arr(contents)
      [] shape = "wrapped" -> Obj([items |-> Arr(contents)])
      [] shape = "bare" -> contents[1]
ShapesOf(contents) ==
    {"array", "wrapped"} \cup
    (IF Len(contents) = 1 /\ contents[1].t = "object" THEN {"bare"} ELSE {})
Accepted(payload) == payload.t \in {"array", "object"}
Logged(payload, st) == HandleToolCall(LogOrderCall(payload), st, recentOrdersRef, now)
AfterLogOrder == lastMessage.conn /= NoRef /\ Len(lastMessage.calls) = 1
InsightAfter(payload) ==
    <<[id |-> 1, name |-> "logOrder", args |-> payload],
      [id |-> 2, name |-> "saveInsight",
       args |-> InsightArgs("general", "sugar", Undef)]>>
C26_ShapesStoreAlike ==
    AfterLogOrder =>
      LET payload == lastMessage.calls[1]
          before == lastMessage.before
      IN IF Accepted(payload)
         THEN \A shape \in ShapesOf(ContentsOf(payload)) :
                 /\ Logged(Shaped(shape, ContentsOf(payload)), before).st = ToolState
                 /\ Logged(Shaped(shape, ContentsOf(payload)), before).functionResponses
                       = wire[1].functionResponses
         ELSE /\ recentOrders = before.recentOrders
              /\ sessionHistory = before.history
              /\ Len(wire) = 1 /\ Len(wire[1].functionResponses) = 1
              /\ wire[1].functionResponses[1].status
                    \in {"Error", "Empty/Unknown Order Ignored"}
              /\ LET batch == HandleToolCall(InsightAfter(payload), before,
                                             recentOrdersRef, now)
                 IN /\ Len(batch.functionResponses) = 2
                    /\ batch.functionResponses[2].status = "Insight Saved"
                    /\ Len(batch.st.history.insights) = 1

C26_Witness ==
    /\ AfterLogOrder
    /\ lastMessage.calls[1] = Item("pyaaz kachori", Num(2))
    /\ Len(sessionHistory.orders) = 2
    /\ sessionHistory.orders[2].items = <<[name |-> "Kachori", quantity |-> Num(2),
                                           notes |-> Undef]>>
    /\ sessionHistory.orders[1].items = sessionHistory.orders[2].items
    /\ lastMessage.before.history.orders = <<sessionHistory.orders[1]>>

\* C27: a suggestCashierPrompt whose text or reason mentions a total shows
\* the sum of totalAmount over all orders logged within the lookback
\* window, those logged earlier in the same batch or message included;
\* any other prompt shows the model's text and reason.
LastCall == ToolCalls[lastMessage.calls[Len(lastMessage.calls)]]
PromptSurfaced ==
    /\ lastMessage.conn /= NoRef
    /\ LastCall.name = "suggestCashierPrompt"
    /\ ~lastMessage.threw[Len(lastMessage.calls)]
LoggedTotal == recentTotal(sessionHistory.orders, now)
C27_TotalOfLoggedOrders ==
    PromptSurfaced =>
        IF MentionsTotal(Get(LastCall.args, "promptText"))
              \/ MentionsTotal(Get(LastCall.args, "reason"))
        THEN cashierPrompt = [shown |-> TRUE, text |-> "Total is ",
                              total |-> LoggedTotal,
                              reason |-> Str("Calculated from recent active orders")]
        ELSE cashierPrompt = [shown |-> TRUE, text |-> Get(LastCall.args, "promptText").s,
                              total |-> Undef, reason |-> Get(LastCall.args, "reason")]

\* C28: a prompt surfaced at time t is cleared by its own timer at
\* t + 10 s and a sentiment surfaced at t at t + 15 s: the timer of an
\* earlier prompt or sentiment does not clear a newer one, and none stays
\* displayed after its window.
Latest(expiries) == CHOOSE t \in expiries : \A u \in expiries : u <= t
ClearsOwnPrompt(t) == cashierPrompt.shown => t = Latest(promptTimers)
ClearsOwnSentiment(t) == currentSentiment.shown => t = Latest(sentimentTimers)
WithinWindow ==
    /\ cashierPrompt.shown => promptTimers /= {} /\ now <= Latest(promptTimers)
    /\ currentSentiment.shown => sentimentTimers /= {} /\ now <= Latest(sentimentTimers)
C28_ClearedAtOwnExpiry ==
    [][/\ \A t \in promptTimers : PromptExpires(t) => ClearsOwnPrompt(t)
       /\ \A t \in sentimentTimers : SentimentExpires(t) => ClearsOwnSentiment(t)
       /\ WithinWindow]_vars

\* C29: the buffers of an output context are scheduled in arrival order,
\* each beginning at the later of the clock's time and the end of the
\* buffer scheduled before it: no two overlap, and a buffer that arrives
\* while the one before it is still queued or playing begins at its end.
EndBefore(k) == IF k > 1 THEN audio.scheduled[k - 1].end ELSE 0
C29_GaplessInOrder ==
    \A k \in 1..Len(audio.scheduled) :
        /\ k > 1 => audio.scheduled[k - 1].id < audio.scheduled[k].id
        /\ audio.scheduled[k].began = Later(audio.scheduled[k].at, EndBefore(k))
        /\ audio.scheduled[k].began >= EndBefore(k)
        /\ k > 1 /\ audio.scheduled[k].arrived < EndBefore(k)
              => audio.scheduled[k].began = EndBefore(k)

\* C30: the speaking indicator is set while a buffer is queued or playing,
\* and after any sequence of chunks, stops and reconnects it does not stay
\* set when no buffer is queued or playing and nothing is left to clear it.
QueuedOrPlaying == \E s \in audio.sources : s.state = "scheduled"
ToBeCleared ==
    \/ audio.decoding /= <<>>
    \/ \E s \in audio.sources : s.state = "ended"
C30_SpeakingWhileAudio ==
    /\ QueuedOrPlaying => audio.isSpeaking
    /\ audio.isSpeaking => QueuedOrPlaying \/ ToBeCleared

\* C31: the transcript of the session is append-only and survives
\* reconnects: whatever happens (tool calls, closes, failed and successful
\* restarts, the stop of the unmount), the orders and insights recorded so
\* far stay as they are and in their order, and the orders and insights
\* emitted to the store are the ones of the transcript, each once.
RECURSIVE Reversed(_)
Reversed(list) ==
    IF list = <<>> THEN <<>> ELSE Append(Reversed(Tail(list)), Head(list))
Extends(old, new) == Len(old) <= Len(new) /\ SubSeq(new, 1, Len(old)) = old
NoLongerCurrent(a) ==
    /\ currentSessionRef /= a
    /\ attempts[a].conn = "closing" \/ currentSessionRef /= NoRef
KeepsPlumbing ==
    UNCHANGED <<currentSessionRef, inputContextRef, outputContextRef, processorRef,
                sourceRef>>
SchedulesNothing == PendingTimers(timers') \subseteq PendingTimers(timers)
C32_StaleCallbackHarmless ==
    [][\A a \in Attempts :
          (OnClose(a) \/ OnError(a)) /\ NoLongerCurrent(a)
              => KeepsPlumbing /\ SchedulesNothing]_vars

\* C33: whenever the session is reported active (isActive, status
\* SURVEILLANCE ACTIVE), no reconnect timer is pending and no startSession
\* is on its way, the current session is one whose connection is open.
ReportedActive == isActive /\ statusText = "SURVEILLANCE ACTIVE"
Settled == \A a \in Attempts : attempts[a].pc \notin {"awaitMic", "awaitConnect"}
C33_ActiveMeansOpen ==
    phase = "mounted" /\ ReportedActive /\ PendingTimers(timers) = {} /\ Settled
        => /\ currentSessionRef /= NoRef
           /\ attempts[currentSessionRef].conn = "open"

\* C34: at most one reconnect timer is pending at any time, and a pending
\* reconnect timer is the one whose handle reconnectTimeoutRef holds.
C34_OneStoredTimer ==
    /\ Cardinality(PendingTimers(timers)) <= 1
    /\ \A t \in PendingTimers(timers) : reconnectTimeoutRef = t

\* C35: after a stop and a restart, the first buffer received on the new
\* connection is scheduled at the time the new output context's clock
\* shows when it arrives, whatever cursor the previous connection left.
FirstAfterRestart ==
    /\ audio.scheduled /= <<>>
    /\ audio.scheduled[1].id > 1
C35_FreshCursorAfterRestart ==
    FirstAfterRestart => audio.scheduled[1].when = audio.scheduled[1].arrived

\* C36: every item of every stored order has a quantity that is a positive
\* number, whatever quantity the arguments of logOrder carried.
PositiveNumber(v) == v.t = "number" /\ v.n > 0
C36_QuantitiesPositive ==
    \A k \in 1..Len(recentOrders) :
        \A j \in 1..Len(recentOrders[k].items) :
            PositiveNumber(recentOrders[k].items[j].quantity)

\* C37: findMenuItem finds nothing for a query that is empty once trimmed.
BlankQuery == trim(lookupQuery) = ""
C37_BlankQueryNoMatch ==
    lookupResult /= <<>> /\ BlankQuery => lookupResult = <<0>>

\* C38: in the camera capture component the error and the active stream are
\* never shown together, however the mount's request and the retries'
\* requests end, and a capture is delivered only while the stream is active
\* and no analysis is in progress.
ErrorShown == camError /= ""
Delivered == captured' = captured + 1
C38_ErrorOrStreamNeverBoth ==
    /\ [](~(ErrorShown /\ streamActive))
    /\ [](ErrorShown => camRequest = "none")
    /\ [][Delivered => streamActive /\ ~isProcessing]_vars
C38_Witness ==
    /\ camPhase = "mounted"
    /\ streamActive /\ ~ErrorShown
    /\ captured = MaxCaptures

====
